---------------------------- MODULE Spec2Model ----------------------------
(***************************************************************************)
(* A model of tslox (jprochazk/tslox): the driver Lox.run and the stages   *)
(* it drives -- Lexer.tokenize, Parser.parse, Resolver.run and             *)
(* Interpreter.interpret -- over one Lox object that is fed a bounded      *)
(* number of input chunks.                                                 *)
(*                                                                         *)
(* Source text is a sequence of one-character strings.  Host exceptions    *)
(* (ParseError, LoxError, ReturnValue, Signal.Break, Signal.Continue) are  *)
(* completion records threaded through the recursive operators; a          *)
(* try/catch/finally of the source is the test of the completion kind at   *)
(* the same place.  panic() is process.exit: it passes every catch and     *)
(* every finally.                                                          *)
(***************************************************************************)
EXTENDS Integers, Sequences, FiniteSets, TLC

(***************************************************************************)
(* Bounds of the model: the number of run() calls made on one Lox object,  *)
(* the number of functions and classes the embedding program registers on  *)
(* it, and the number of run() calls that may precede a registration.      *)
(***************************************************************************)
MaxRuns == 2
MaxHost == 1
MaxRunsBeforeHost == 0

\* binding of an intermediate result: `const x = v; ...`; v is computed before
\* the rest runs
Let(v, K(_)) == CASE v = v -> K(v)

Nil == [t |-> "nil"]
Undefined == [t |-> "undefined"]
Bool(b) == [t |-> "boolean", b |-> b]
Num(n) == [t |-> "number", n |-> n]
Str(s) == [t |-> "string", s |-> s]
Ref(r) == [t |-> "ref", ref |-> r]

(***************************************************************************)
(* ctx.ts: Context                                                         *)
(***************************************************************************)
ContextInit == [hadError |-> FALSE, errors |-> <<>>]

\* a reset that clears the flag and keeps the list
ctxResetFlagOnly(ctx) == [ctx EXCEPT !.hadError = FALSE]

\* Context.reset
ctxReset(ctx) == [hadError |-> FALSE, errors |-> <<>>]

ctxErrorFlagOnly(ctx, form, line, message) == [ctx EXCEPT !.hadError = TRUE]

\* Context.error: both overloads push one formatted line and set the flag.
\* `form` is "LoxError" (`[line N] <stack>`; the stack starts with
\* `Error: <message>`, the frames after it are the host's) or "Token"
\* (`[line N]: <message>`).
ctxError(ctx, form, line, message) ==
    [hadError |-> TRUE,
     errors |-> Append(ctx.errors,
                       "[line " \o ToString(line) \o "]"
                       \o (IF form = "LoxError" THEN " Error: " ELSE ": ") \o message)]

(***************************************************************************)
(* lexer.ts: Lexer                                                         *)
(***************************************************************************)
Digits == {"0", "1", "2", "3", "4", "5", "6", "7", "8", "9"}
Letters == {"a", "b", "c", "d", "e", "f", "g", "h", "i", "j", "k", "l", "m",
            "n", "o", "p", "q", "r", "s", "t", "u", "v", "w", "x", "y", "z",
            "A", "B", "C", "D", "E", "F", "G", "H", "I", "J", "K", "L", "M",
            "N", "O", "P", "Q", "R", "S", "T", "U", "V", "W", "X", "Y", "Z",
            "_"}
NUL == "<NUL>"

isDigit(char) == char \in Digits
isAlpha(char) == char \in Letters
isAlphaNumeric(char) == char \in Digits \cup Letters

KEYWORDS ==
    [k \in {"and", "class", "else", "false", "for", "fun", "if", "nil", "or",
            "print", "return", "super", "this", "true", "var", "while",
            "continue", "break", "delete", "static"} |->
        CASE k = "and" -> "AND" [] k = "class" -> "CLASS" [] k = "else" -> "ELSE"
          [] k = "false" -> "FALSE" [] k = "for" -> "FOR" [] k = "fun" -> "FUN"
          [] k = "if" -> "IF" [] k = "nil" -> "NIL" [] k = "or" -> "OR"
          [] k = "print" -> "PRINT" [] k = "return" -> "RETURN"
          [] k = "super" -> "SUPER" [] k = "this" -> "THIS" [] k = "true" -> "TRUE"
          [] k = "var" -> "VAR" [] k = "while" -> "WHILE"
          [] k = "continue" -> "CONTINUE" [] k = "break" -> "BREAK"
          [] k = "delete" -> "DELETE" [] k = "static" -> "STATIC"]

SINGLE ==
    [c \in {"(", ")", "{", "}", ",", ".", "-", "+", ";", "%"} |->
        CASE c = "(" -> "LEFT_PAREN" [] c = ")" -> "RIGHT_PAREN"
          [] c = "{" -> "LEFT_BRACE" [] c = "}" -> "RIGHT_BRACE"
          [] c = "," -> "COMMA" [] c = "." -> "DOT" [] c = "-" -> "MINUS"
          [] c = "+" -> "PLUS" [] c = ";" -> "SEMICOLON" [] c = "%" -> "PERCENT"]

LexerInit == [tokens |-> <<>>, current |-> 0, line |-> 1, source |-> <<>>]

Token(type, lexeme, value, line) ==
    [type |-> type, lexeme |-> lexeme, value |-> value, line |-> line]

\* String.prototype.charAt: "" outside the string.
charAt(source, pos) == IF pos >= 0 /\ pos < Len(source) THEN source[pos + 1] ELSE ""

Min(a, b) == IF a < b THEN a ELSE b
Max(a, b) == IF a > b THEN a ELSE b

RECURSIVE joinChars(_, _, _)
joinChars(source, from, to) ==
    IF from >= to THEN "" ELSE source[from + 1] \o joinChars(source, from + 1, to)

\* String.prototype.substring: both ends clamped to the string, swapped if reversed.
substring(source, a, b) ==
    LET ca == Max(0, Min(a, Len(source)))
        cb == Max(0, Min(b, Len(source)))
    IN  joinChars(source, Min(ca, cb), Max(ca, cb))

lexIsAtEnd(source, current) == current >= Len(source)

lexPeek(source, current, ahead) ==
    IF current + ahead >= Len(source) THEN NUL ELSE charAt(source, current + ahead)

\* `while (this.peek() !== '\n' && !this.isAtEnd) this.advance()`
RECURSIVE skipComment(_, _)
skipComment(source, current) ==
    IF lexPeek(source, current, 0) # "\n" /\ ~lexIsAtEnd(source, current)
    THEN skipComment(source, current + 1)
    ELSE current

\* `while (isDigit(this.peek())) this.advance()`
RECURSIVE scanDigits(_, _)
scanDigits(source, current) ==
    IF isDigit(lexPeek(source, current, 0)) THEN scanDigits(source, current + 1)
    ELSE current

\* `while (isAlphaNumeric(this.peek())) this.advance()`
RECURSIVE scanAlphaNumeric(_, _)
scanAlphaNumeric(source, current) ==
    IF isAlphaNumeric(lexPeek(source, current, 0))
    THEN scanAlphaNumeric(source, current + 1)
    ELSE current

\* `while (this.peek() != '"' && !this.isAtEnd) { if (peek == '\n') ++line; advance }`
RECURSIVE scanString(_, _, _)
scanString(source, current, line) ==
    IF lexPeek(source, current, 0) # "\"" /\ ~lexIsAtEnd(source, current)
    THEN scanString(source, current + 1,
                    IF lexPeek(source, current, 0) = "\n" THEN line + 1 ELSE line)
    ELSE [current |-> current, line |-> line]

digitValue(char) ==
    CASE char = "0" -> 0 [] char = "1" -> 1 [] char = "2" -> 2 [] char = "3" -> 3
      [] char = "4" -> 4 [] char = "5" -> 5 [] char = "6" -> 6 [] char = "7" -> 7
      [] char = "8" -> 8 [] char = "9" -> 9

\* parseFloat of the digits source[from .. to-1]; the number literals of the
\* inputs modelled are integers, a fraction part is kept as its digit string.
RECURSIVE digitsValue(_, _, _, _)
digitsValue(source, from, to, acc) ==
    IF from >= to \/ ~isDigit(charAt(source, from)) THEN acc
    ELSE digitsValue(source, from + 1, to, 10 * acc + digitValue(charAt(source, from)))

parseFloat(source, from, to) ==
    LET intEnd == scanDigits(source, from)
    IN  IF intEnd >= to THEN Num(digitsValue(source, from, to, 0))
        ELSE [t |-> "number", n |-> digitsValue(source, from, to, 0),
              frac |-> substring(source, intEnd + 1, to)]

\* `this.match(expected)` on the character after `current`.
lexMatch(source, current, expected) ==
    ~lexIsAtEnd(source, current) /\ charAt(source, current) = expected

\* One iteration of the `next:` loop of Lexer.tokenize, from the character at
\* `current`.  The result is the lexer and the context after the iteration.
lexOne(lexer, ctx) ==
    LET source == lexer.source
        start == lexer.current
        char == charAt(source, start)
        cur == start + 1
        push(type, value, current, line) ==
            [lexer |-> [lexer EXCEPT
                            !.tokens = Append(@, Token(type, substring(source, start, current),
                                                       value, line)),
                            !.current = current, !.line = line],
             ctx |-> ctx]
        skip(current, line) ==
            [lexer |-> [lexer EXCEPT !.current = current, !.line = line], ctx |-> ctx]
        two(second, yes, no) ==
            IF lexMatch(source, cur, second) THEN push(yes, Nil, cur + 1, lexer.line)
            ELSE push(no, Nil, cur, lexer.line)
    IN  CASE char \in DOMAIN SINGLE -> push(SINGLE[char], Nil, cur, lexer.line)
          [] char = "/" ->
                IF lexMatch(source, cur, "/")
                THEN skip(skipComment(source, cur + 1), lexer.line)
                ELSE push("SLASH", Nil, cur, lexer.line)
          [] char = "*" -> two("*", "POWER", "STAR")
          [] char = "!" -> two("=", "BANG_EQUAL", "BANG")
          [] char = "=" -> two("=", "EQUAL_EQUAL", "EQUAL")
          [] char = "<" -> two("=", "LESS_EQUAL", "LESS")
          [] char = ">" -> two("=", "GREATER_EQUAL", "GREATER")
          [] char \in {" ", "\r", "\t"} -> skip(cur, lexer.line)
          [] char = "\n" -> skip(cur, lexer.line + 1)
          [] char \in {"'", "\""} ->
                LET s == scanString(source, cur, lexer.line)
                    atEnd == lexIsAtEnd(source, s.current)
                    \* consume closing quote: advance() also moves past the end
                    after == s.current + 1
                    value == Str(substring(source, start + 1, after - 1))
                IN  [lexer |-> [lexer EXCEPT
                                    !.tokens = Append(@, Token("STRING",
                                                  substring(source, start, after),
                                                  value, s.line)),
                                    !.current = after, !.line = s.line],
                     ctx |-> IF atEnd
                             THEN ctxError(ctx, "LoxError", s.line, "Unterminated string")
                             ELSE ctx]
          [] isDigit(char) ->
                LET intEnd == scanDigits(source, cur)
                    numEnd == IF lexPeek(source, intEnd, 0) = "."
                                 /\ isDigit(lexPeek(source, intEnd, 1))
                              THEN scanDigits(source, intEnd + 1)
                              ELSE intEnd
                IN  push("NUMBER", parseFloat(source, start, numEnd), numEnd, lexer.line)
          [] isAlpha(char) ->
                LET idEnd == scanAlphaNumeric(source, cur)
                    word == substring(source, start, idEnd)
                IN  push(IF word \in DOMAIN KEYWORDS THEN KEYWORDS[word] ELSE "IDENTIFIER",
                         Nil, idEnd, lexer.line)
          [] OTHER ->
                [lexer |-> [lexer EXCEPT !.current = cur],
                 ctx |-> ctxError(ctx, "LoxError", lexer.line, "Unexpected character")]

RECURSIVE lexLoop(_, _)
lexLoop(lexer, ctx) ==
    IF lexIsAtEnd(lexer.source, lexer.current) THEN [lexer |-> lexer, ctx |-> ctx]
    ELSE LET r == lexOne(lexer, ctx) IN lexLoop(r.lexer, r.ctx)

\* Lexer.tokenize: sets the source, scans from the current position and ends
\* the token list with EOF.  The list returned is this.tokens itself.
tokenize(lexer, ctx, source) ==
    LET r == lexLoop([lexer EXCEPT !.source = source], ctx)
    IN  [lexer |-> [r.lexer EXCEPT
                        !.tokens = Append(@, Token("EOF", "", Nil, r.lexer.line))],
         ctx |-> r.ctx]

(***************************************************************************)
(* parser.ts: Parser.  The parser state p is [tokens, current, ctx, run];  *)
(* `run` numbers the run() call and, with the index of a node's name or    *)
(* keyword token, is the identity of the AST node (the key of the          *)
(* interpreter's locals map).  A result is [p, ok, v]: ok = FALSE is a     *)
(* thrown ParseError.                                                      *)
(***************************************************************************)
MaxArgs == 255

None == [type |-> "null"]
ParserInit == [current |-> 0, tokens |-> <<>>]

POk(p, v) == [p |-> p, ok |-> TRUE, v |-> v]
PFail(p) == [p |-> p, ok |-> FALSE, v |-> None]

pPeek(p) == p.tokens[p.current + 1]
pPrevious(p) == p.tokens[p.current]
pIsAtEnd(p) ==
    Len(p.tokens) = 0 \/ p.current + 1 > Len(p.tokens) \/ pPeek(p).type = "EOF"
pAdvance(p) == IF ~pIsAtEnd(p) THEN [p EXCEPT !.current = @ + 1] ELSE p
pCheck(p, type) == ~pIsAtEnd(p) /\ pPeek(p).type = type
\* match(...types): whether one of the types is next (the caller then advances)
pMatch(p, types) == ~pIsAtEnd(p) /\ pPeek(p).type \in types
\* Parser.error: reports to the context; the caller decides whether to throw
pError(p, token, message) ==
    [p EXCEPT !.ctx = ctxError(@, "Token", token.line, message)]
consume(p, type, message) ==
    IF pCheck(p, type) THEN POk(pAdvance(p), pPrevious(pAdvance(p)))
    ELSE PFail(pError(p, pPeek(p), message))
\* identity of the node whose name/keyword token was consumed last
nodeId(p) == <<p.run, p.current>>

SyncTypes == {"CLASS", "FUN", "VAR", "FOR", "IF", "WHILE", "PRINT", "RETURN"}

RECURSIVE synchronizeLoop(_)
synchronizeLoop(p) ==
    IF pIsAtEnd(p) THEN p
    ELSE IF pPrevious(p).type = "SEMICOLON" THEN p
    ELSE IF pPeek(p).type \in SyncTypes THEN p
    ELSE synchronizeLoop(pAdvance(p))

\* history of an error recovery: where it began and where it stopped
noteSync(p, q) == [q EXCEPT !.syncs = Append(@, [from |-> p.current, to |-> q.current])]

\* a recovery that drops the offending token only
synchronizeOne(p) == noteSync(p, pAdvance(p))

\* Parser.synchronize
synchronize(p) == noteSync(p, synchronizeLoop(pAdvance(p)))

RECURSIVE declaration(_), declarations(_, _, _), classDeclaration(_), classMembers(_, _, _),
          functionDeclaration(_, _), paramList(_, _), block(_), varDeclaration(_),
          statement(_), ifStatement(_), printStatement(_), returnStatement(_),
          whileStatement(_), forStatement(_), breakStatement(_), continueStatement(_),
          expressionStatement(_), comma(_), commaRest(_, _), expression(_), assignment(_),
          binaryLevel(_, _), binaryLoops(_, _, _, _),
          unary(_), call(_), callRest(_, _), finishCall(_, _), argList(_, _), primary(_)

declaration(p) ==
    Let(IF pMatch(p, {"CLASS"}) THEN classDeclaration(pAdvance(p))
             ELSE IF pMatch(p, {"FUN"}) THEN functionDeclaration(pAdvance(p), "function")
             ELSE IF pMatch(p, {"VAR"}) THEN varDeclaration(pAdvance(p))
             ELSE statement(p), LAMBDA r :
    IF r.ok THEN r ELSE POk(synchronize(r.p), None))

\* `while (<not at a stop>) { decl = declaration(); if (decl) list.push(decl) }`:
\* the loop of Parser.parse (inBlock = FALSE) and of Parser.block (TRUE).
\* The history gets where each turn of the loop began and ended.
declarations(p, inBlock, list) ==
    IF pIsAtEnd(p) \/ (inBlock /\ pCheck(p, "RIGHT_BRACE")) THEN POk(p, list)
    ELSE Let(declaration(p), LAMBDA r :
         declarations([r.p EXCEPT !.steps = Append(@, [from |-> p.current,
                                                       to |-> r.p.current])],
                      inBlock, IF r.v.type = "null" THEN list ELSE Append(list, r.v)))

block(p) ==
    Let(declarations(p, TRUE, <<>>), LAMBDA r :
    LET c == consume(r.p, "RIGHT_BRACE", "Expected '}' after block")
    IN  IF c.ok THEN POk(c.p, r.v) ELSE PFail(c.p))

\* `do { if (n >= 255) error; params.push(consume(IDENTIFIER)) } while (match(COMMA))`
paramList(p, params) ==
    LET p1 == IF Len(params) >= MaxArgs
              THEN pError(p, pPeek(p), "Functions may only have up to 255 parameters")
              ELSE p
        c == consume(p1, "IDENTIFIER", "Expected parameter name")
    IN  IF ~c.ok THEN PFail(c.p)
        ELSE IF pMatch(c.p, {"COMMA"}) THEN paramList(pAdvance(c.p), Append(params, c.v))
        ELSE POk(c.p, Append(params, c.v))

functionDeclaration(p, kind) ==
    LET n == consume(p, "IDENTIFIER", "Expected " \o kind \o " name")
    IN  IF ~n.ok THEN PFail(n.p) ELSE
    LET hasParams == pMatch(n.p, {"LEFT_PAREN"})
    IN  Let(IF ~hasParams THEN POk(n.p, <<>>)
              ELSE IF pCheck(pAdvance(n.p), "RIGHT_PAREN") THEN POk(pAdvance(n.p), <<>>)
              ELSE paramList(pAdvance(n.p), <<>>), LAMBDA ps :
    IF ~ps.ok THEN PFail(ps.p) ELSE
    LET rp == IF hasParams
              THEN consume(ps.p, "RIGHT_PAREN", "Expected ')' after parameter list")
              ELSE POk(ps.p, None)
    IN  IF ~rp.ok THEN PFail(rp.p) ELSE
    LET lb == consume(rp.p, "LEFT_BRACE", "Expected '{' after " \o kind \o " declaration")
    IN  IF ~lb.ok THEN PFail(lb.p) ELSE
    Let(block(lb.p), LAMBDA b :
    IF ~b.ok THEN PFail(b.p) ELSE
    LET p2 == IF kind = "function" /\ ~hasParams
              THEN pError(b.p, pPeek(b.p), "Getters may only exist within a class")
              ELSE b.p
    IN  POk(p2, [type |-> "FunctionStmt", name |-> n.v, paramsNull |-> ~hasParams,
                 params |-> ps.v, body |-> b.v])))

\* the member loop of classDeclaration
classMembers(p, methods, staticMethods) ==
    IF pCheck(p, "RIGHT_BRACE") \/ pIsAtEnd(p)
    THEN POk(p, [methods |-> methods, staticMethods |-> staticMethods])
    ELSE LET isStatic == pMatch(p, {"STATIC"})
         IN  Let(functionDeclaration(IF isStatic THEN pAdvance(p) ELSE p, "method"), LAMBDA d :
         IF ~d.ok THEN PFail(d.p)
             ELSE IF isStatic THEN classMembers(d.p, methods, Append(staticMethods, d.v))
             ELSE classMembers(d.p, Append(methods, d.v), staticMethods))

classDeclaration(p) ==
    LET n == consume(p, "IDENTIFIER", "Expected class name")
    IN  IF ~n.ok THEN PFail(n.p) ELSE
    LET hasSuper == pMatch(n.p, {"LESS"})
        s == IF hasSuper
             THEN consume(pAdvance(n.p), "IDENTIFIER", "Expected superclass name")
             ELSE POk(n.p, None)
    IN  IF ~s.ok THEN PFail(s.p) ELSE
    LET superclass == IF hasSuper
                      THEN [type |-> "Variable", name |-> s.v, id |-> nodeId(s.p)]
                      ELSE None
        lb == consume(s.p, "LEFT_BRACE", "Expected '{' after class name")
    IN  IF ~lb.ok THEN PFail(lb.p) ELSE
    Let(classMembers(lb.p, <<>>, <<>>), LAMBDA m :
    IF ~m.ok THEN PFail(m.p) ELSE
    LET rb == consume(m.p, "RIGHT_BRACE", "Expected '}' after class body")
    IN  IF ~rb.ok THEN PFail(rb.p)
        ELSE POk(rb.p, [type |-> "Class", name |-> n.v, superclass |-> superclass,
                        methods |-> m.v.methods, staticMethods |-> m.v.staticMethods]))

varDeclaration(p) ==
    LET n == consume(p, "IDENTIFIER", "Expected identifier after 'var' statement")
    IN  IF ~n.ok THEN PFail(n.p) ELSE
    Let(IF pMatch(n.p, {"EQUAL"}) THEN comma(pAdvance(n.p)) ELSE POk(n.p, None), LAMBDA i :
    IF ~i.ok THEN PFail(i.p) ELSE
    LET c == consume(i.p, "SEMICOLON", "Statements must be terminated by semicolons")
    IN  IF ~c.ok THEN PFail(c.p)
        ELSE POk(c.p, [type |-> "Var", name |-> n.v, init |-> i.v]))

statement(p) ==
    IF pMatch(p, {"IF"}) THEN ifStatement(pAdvance(p))
    ELSE IF pMatch(p, {"PRINT"}) THEN printStatement(pAdvance(p))
    ELSE IF pMatch(p, {"RETURN"}) THEN returnStatement(pAdvance(p))
    ELSE IF pMatch(p, {"WHILE"}) THEN whileStatement(pAdvance(p))
    ELSE IF pMatch(p, {"FOR"}) THEN forStatement(pAdvance(p))
    ELSE IF pMatch(p, {"BREAK"}) THEN breakStatement(pAdvance(p))
    ELSE IF pMatch(p, {"CONTINUE"}) THEN continueStatement(pAdvance(p))
    ELSE IF pMatch(p, {"LEFT_BRACE"})
         THEN Let(block(pAdvance(p)), LAMBDA b :
              IF b.ok THEN POk(b.p, [type |-> "Block", stmtList |-> b.v]) ELSE b)
    ELSE expressionStatement(p)

ifStatement(p) ==
    LET lp == consume(p, "LEFT_PAREN", "Expected '(' after 'if'")
    IN  IF ~lp.ok THEN PFail(lp.p) ELSE
    Let(comma(lp.p), LAMBDA c :
    IF ~c.ok THEN PFail(c.p) ELSE
    LET rp == consume(c.p, "RIGHT_PAREN", "Expected ')' after if condition")
    IN  IF ~rp.ok THEN PFail(rp.p) ELSE
    Let(statement(rp.p), LAMBDA t :
    IF ~t.ok THEN PFail(t.p) ELSE
    Let(IF pMatch(t.p, {"ELSE"}) THEN statement(pAdvance(t.p)) ELSE POk(t.p, None), LAMBDA e :
    IF ~e.ok THEN PFail(e.p)
        ELSE POk(e.p, [type |-> "If", condition |-> c.v, thenBranch |-> t.v,
                       elseBranch |-> e.v]))))

printStatement(p) ==
    Let(comma(p), LAMBDA e :
    IF ~e.ok THEN PFail(e.p) ELSE
    LET c == consume(e.p, "SEMICOLON", "Statements must be terminated by semicolons")
    IN  IF ~c.ok THEN PFail(c.p) ELSE POk(c.p, [type |-> "Print", expr |-> e.v]))

returnStatement(p) ==
    LET keyword == pPrevious(p)
    IN  Let(IF ~pCheck(p, "SEMICOLON") THEN comma(p) ELSE POk(p, None), LAMBDA v :
    IF ~v.ok THEN PFail(v.p) ELSE
    LET c == consume(v.p, "SEMICOLON", "Statements must be terminated by semicolons")
    IN  IF ~c.ok THEN PFail(c.p)
        ELSE POk(c.p, [type |-> "Return", keyword |-> keyword, value |-> v.v]))

whileStatement(p) ==
    LET id == nodeId(p)
        lp == consume(p, "LEFT_PAREN", "Expected '(' after 'while'")
    IN  IF ~lp.ok THEN PFail(lp.p) ELSE
    Let(comma(lp.p), LAMBDA c :
    IF ~c.ok THEN PFail(c.p) ELSE
    LET rp == consume(c.p, "RIGHT_PAREN", "Expected ')' after loop condition")
    IN  IF ~rp.ok THEN PFail(rp.p) ELSE
    Let(statement(rp.p), LAMBDA b :
    IF ~b.ok THEN PFail(b.p)
        ELSE POk(b.p, [type |-> "Loop", init |-> None, condition |-> c.v,
                       update |-> None, body |-> b.v, id |-> id])))

forStatement(p) ==
    LET id == nodeId(p)
        lp == consume(p, "LEFT_PAREN", "Expected '(' after 'for'")
    IN  IF ~lp.ok THEN PFail(lp.p) ELSE
    Let(IF pMatch(lp.p, {"SEMICOLON"}) THEN POk(pAdvance(lp.p), None)
             ELSE IF pMatch(lp.p, {"VAR"}) THEN varDeclaration(pAdvance(lp.p))
             ELSE expressionStatement(lp.p), LAMBDA i :
    IF ~i.ok THEN PFail(i.p) ELSE
    Let(IF ~pCheck(i.p, "SEMICOLON") THEN comma(i.p) ELSE POk(i.p, None), LAMBDA c :
    IF ~c.ok THEN PFail(c.p) ELSE
    LET s == consume(c.p, "SEMICOLON", "Expected ';' after loop condition")
    IN  IF ~s.ok THEN PFail(s.p) ELSE
    Let(IF ~pCheck(s.p, "RIGHT_PAREN") THEN comma(s.p) ELSE POk(s.p, None), LAMBDA u :
    IF ~u.ok THEN PFail(u.p) ELSE
    LET rp == consume(u.p, "RIGHT_PAREN", "Expected ')' after loop clauses")
    IN  IF ~rp.ok THEN PFail(rp.p) ELSE
    Let(statement(rp.p), LAMBDA b :
    IF ~b.ok THEN PFail(b.p)
        ELSE POk(b.p, [type |-> "Loop", init |-> i.v,
                       condition |-> IF c.v.type = "null"
                                     THEN [type |-> "Literal", value |-> Bool(TRUE)]
                                     ELSE c.v,
                       update |-> u.v, body |-> b.v, id |-> id])))))

breakStatement(p) ==
    LET keyword == pPrevious(p)
        c == consume(p, "SEMICOLON", "Statements must be terminated by semicolons")
    IN  IF ~c.ok THEN PFail(c.p)
        ELSE POk(c.p, [type |-> "Break", keyword |-> keyword, id |-> nodeId(p)])

continueStatement(p) ==
    LET keyword == pPrevious(p)
        c == consume(p, "SEMICOLON", "Statements must be terminated by semicolons")
    IN  IF ~c.ok THEN PFail(c.p)
        ELSE POk(c.p, [type |-> "Continue", keyword |-> keyword, id |-> nodeId(p)])

expressionStatement(p) ==
    Let(comma(p), LAMBDA e :
    IF ~e.ok THEN PFail(e.p) ELSE
    LET c == consume(e.p, "SEMICOLON", "Statements must be terminated by semicolons")
    IN  IF ~c.ok THEN PFail(c.p) ELSE POk(c.p, [type |-> "Expression", expr |-> e.v]))

\* `while (match(COMMA)) list.push(expression())`
commaRest(p, list) ==
    IF pMatch(p, {"COMMA"})
    THEN Let(expression(pAdvance(p)), LAMBDA e :
         IF ~e.ok THEN PFail(e.p) ELSE commaRest(e.p, Append(list, e.v)))
    ELSE POk(p, list)

comma(p) ==
    Let(expression(p), LAMBDA e :
    IF ~e.ok THEN PFail(e.p) ELSE
    Let(commaRest(e.p, <<e.v>>), LAMBDA l :
    IF ~l.ok THEN PFail(l.p)
        ELSE IF Len(l.v) > 1 THEN POk(l.p, [type |-> "Comma", list |-> l.v])
        ELSE POk(l.p, l.v[1])))

expression(p) == assignment(p)

assignment(p) ==
    Let(binaryLevel(p, 1), LAMBDA e :
    IF ~e.ok THEN PFail(e.p)
        ELSE IF ~pMatch(e.p, {"EQUAL"}) THEN e ELSE
    LET equals == pPrevious(pAdvance(e.p))
    IN  Let(assignment(pAdvance(e.p)), LAMBDA v :
    IF ~v.ok THEN PFail(v.p)
        ELSE IF e.v.type = "Variable"
        THEN POk(v.p, [type |-> "Assign", name |-> e.v.name, value |-> v.v, id |-> e.v.id])
        ELSE IF e.v.type = "Get"
        THEN POk(v.p, [type |-> "Set", object |-> e.v.object, name |-> e.v.name,
                       value |-> v.v])
        ELSE POk(pError(v.p, equals, "Invalid assignment target"), e.v)))

\* The seven binary levels (or, and, equality, comparison, term, factor,
\* power) are one method each, all of this shape:
\*     expr = <next level>(); while (match(<ops>)) { op = previous();
\*     right = <operand level>(); expr = new <kind>(expr, op, right) } return expr
\* Level 1 is `or`, level 7 `power`; the operand level of k is k + 1, and 7
\* for power, whose right operand is power() itself.
binaryOps(k) ==
    CASE k = 1 -> {"OR"}
      [] k = 2 -> {"AND"}
      [] k = 3 -> {"BANG_EQUAL", "EQUAL_EQUAL"}
      [] k = 4 -> {"GREATER", "GREATER_EQUAL", "LESS", "LESS_EQUAL"}
      [] k = 5 -> {"MINUS", "PLUS"}
      [] k = 6 -> {"SLASH", "STAR", "PERCENT"}
      [] k = 7 -> {"POWER"}

\* the level whose loop matches the token, 0 if none does
binaryLevelOf(type) ==
    IF \E k \in 1..7 : type \in binaryOps(k)
    THEN CHOOSE k \in 1..7 : type \in binaryOps(k)
    ELSE 0

\* The loops of the levels cur, cur - 1, .., k, in the order in which the
\* returns reach them: a loop whose operators do not match is left at once,
\* so the next loop to run its body is the one of the next token's level.
binaryLoops(p, expr, k, cur) ==
    LET j == binaryLevelOf(pPeek(p).type)
    IN  IF j = 0 \/ j < k \/ j > cur THEN POk(p, expr) ELSE
    LET op == pPrevious(pAdvance(p))
    IN  Let(binaryLevel(pAdvance(p), IF j = 7 THEN 7 ELSE j + 1), LAMBDA right :
    IF ~right.ok THEN PFail(right.p)
        ELSE binaryLoops(right.p,
                         [type |-> IF j <= 2 THEN "Logical" ELSE "Binary",
                          left |-> expr, op |-> op, right |-> right.v],
                         k, j))

\* the method of level k: the calls go down to unary(), then the loops run
binaryLevel(p, k) ==
    Let(unary(p), LAMBDA e :
    IF ~e.ok THEN PFail(e.p) ELSE binaryLoops(e.p, e.v, k, 7))

unary(p) ==
    IF pMatch(p, {"BANG", "MINUS"})
    THEN LET op == pPrevious(pAdvance(p))
         IN  Let(unary(pAdvance(p)), LAMBDA r :
         IF ~r.ok THEN PFail(r.p)
             ELSE POk(r.p, [type |-> "Unary", op |-> op, right |-> r.v]))
    ELSE call(p)

\* `do { if (n >= 255) error; args.push(expression()) } while (match(COMMA))`
argList(p, args) ==
    LET p1 == IF Len(args) >= MaxArgs
              THEN pError(p, pPeek(p), "Functions may only have up to 255 arguments")
              ELSE p
    IN  Let(expression(p1), LAMBDA e :
    IF ~e.ok THEN PFail(e.p)
        ELSE IF pMatch(e.p, {"COMMA"}) THEN argList(pAdvance(e.p), Append(args, e.v))
        ELSE POk(e.p, Append(args, e.v)))

finishCall(p, callee) ==
    Let(IF ~pCheck(p, "RIGHT_PAREN") THEN argList(p, <<>>) ELSE POk(p, <<>>), LAMBDA a :
    IF ~a.ok THEN PFail(a.p) ELSE
    LET end == consume(a.p, "RIGHT_PAREN", "Expected ')' after argument list")
    IN  IF ~end.ok THEN PFail(end.p)
        ELSE POk(end.p, [type |-> "Call", callee |-> callee, end |-> end.v, args |-> a.v]))

\* the `for (;;)` loop of Parser.call
callRest(p, expr) ==
    IF pMatch(p, {"LEFT_PAREN"})
    THEN Let(finishCall(pAdvance(p), expr), LAMBDA c :
         IF ~c.ok THEN PFail(c.p) ELSE callRest(c.p, c.v))
    ELSE IF pMatch(p, {"DOT"})
    THEN LET n == consume(pAdvance(p), "IDENTIFIER", "Expected property name after '.'")
         IN  IF ~n.ok THEN PFail(n.p)
             ELSE callRest(n.p, [type |-> "Get", object |-> expr, name |-> n.v])
    ELSE POk(p, expr)

call(p) ==
    Let(primary(p), LAMBDA e :
    IF ~e.ok THEN PFail(e.p) ELSE callRest(e.p, e.v))

primary(p) ==
    LET q == pAdvance(p)
    IN  IF pMatch(p, {"FALSE"}) THEN POk(q, [type |-> "Literal", value |-> Bool(FALSE)])
    ELSE IF pMatch(p, {"TRUE"}) THEN POk(q, [type |-> "Literal", value |-> Bool(TRUE)])
    ELSE IF pMatch(p, {"NIL"}) THEN POk(q, [type |-> "Literal", value |-> Nil])
    ELSE IF pMatch(p, {"NUMBER", "STRING"})
    THEN POk(q, [type |-> "Literal", value |-> pPrevious(q).value])
    ELSE IF pMatch(p, {"THIS"})
    THEN POk(q, [type |-> "This", keyword |-> pPrevious(q), id |-> nodeId(q)])
    ELSE IF pMatch(p, {"SUPER"})
    THEN LET d == consume(q, "DOT", "Expected '.' after 'super'")
         IN  IF ~d.ok THEN PFail(d.p) ELSE
         LET m == consume(d.p, "IDENTIFIER", "Expected property name")
         IN  IF ~m.ok THEN PFail(m.p)
             ELSE POk(m.p, [type |-> "Super", keyword |-> pPrevious(q), value |-> m.v,
                            id |-> nodeId(q)])
    ELSE IF pMatch(p, {"IDENTIFIER"})
    THEN POk(q, [type |-> "Variable", name |-> pPrevious(q), id |-> nodeId(q)])
    ELSE IF pMatch(p, {"LEFT_PAREN"})
    THEN Let(comma(q), LAMBDA e :
         IF ~e.ok THEN PFail(e.p) ELSE
         LET c == consume(e.p, "RIGHT_PAREN", "Unterminated ')'")
         IN  IF ~c.ok THEN PFail(c.p)
             ELSE POk(c.p, [type |-> "Grouping", inner |-> e.v]))
    ELSE IF pMatch(p, {"FUN"})
    THEN LET hasName == pMatch(q, {"IDENTIFIER"})
             q1 == IF hasName THEN pAdvance(q) ELSE q
             name == IF hasName THEN pPrevious(q1) ELSE None
             lp == consume(q1, "LEFT_PAREN", "Expected '(' in function declaration")
         IN  IF ~lp.ok THEN PFail(lp.p) ELSE
         Let(IF ~pCheck(lp.p, "RIGHT_PAREN") THEN paramList(lp.p, <<>>)
                   ELSE POk(lp.p, <<>>), LAMBDA ps :
         IF ~ps.ok THEN PFail(ps.p) ELSE
         LET rp == consume(ps.p, "RIGHT_PAREN", "Expected ')' after parameter list")
         IN  IF ~rp.ok THEN PFail(rp.p) ELSE
         LET lb == consume(rp.p, "LEFT_BRACE", "Expected '{' after function declaration")
         IN  IF ~lb.ok THEN PFail(lb.p) ELSE
         Let(block(lb.p), LAMBDA b :
         IF ~b.ok THEN PFail(b.p)
             ELSE POk(b.p, [type |-> "FunctionExpr", name |-> name, paramsNull |-> FALSE,
                            params |-> ps.v, body |-> b.v])))
    ELSE IF pMatch(p, {"DELETE"})
    THEN Let(comma(q), LAMBDA inst :
         IF ~inst.ok THEN PFail(inst.p)
             ELSE IF inst.v.type = "Get"
             THEN POk(inst.p, [type |-> "Delete", object |-> inst.v.object,
                               name |-> inst.v.name])
             ELSE PFail(pError(inst.p, pPeek(inst.p),
                               "Delete expression must end with field access")))
    ELSE PFail(pError(p, pPeek(p), "Expected expression"))

\* Parser.parse: this.tokens = tokens, then declarations up to EOF.  The
\* result is [parser, ctx, stmts], with the history of the recoveries and of
\* the turns of the declaration loops.
parse(parser, ctx, tokens, run) ==
    Let(declarations([tokens |-> tokens, current |-> parser.current,
                           ctx |-> ctx, run |-> run, syncs |-> <<>>, steps |-> <<>>],
                     FALSE, <<>>), LAMBDA r :
    [parser |-> [current |-> r.p.current, tokens |-> r.p.tokens],
         ctx |-> r.p.ctx, stmts |-> r.v, syncs |-> r.p.syncs, steps |-> r.p.steps])


(***************************************************************************)
(* resolver.ts: Resolver.  The resolver state threaded through a pass is   *)
(* b = [scopes, currentFunction, currentLoop, currentClass, ctx, locals,   *)
(* declared, loops, enclosingLoops, constructs]: its own four fields, the   *)
(* shared                                                                  *)
(* context, the interpreter's locals map (Interpreter.resolve writes it)   *)
(* and four pieces of history: for every reference passed to               *)
(* resolveLocal, the distance to the innermost scope of the stack that     *)
(* declares the name (-1 if none does); the loops being visited, outermost *)
(* first; for every break and continue, the loops around it; and the       *)
(* constructs resolved in this pass.                                       *)
(***************************************************************************)
ResolverInit ==
    [scopes |-> <<>>, currentFunction |-> "NONE", currentLoop |-> "NONE",
     currentClass |-> "NONE"]

\* Map.set on a map kept as a function
mapSet(map, key, value) ==
    [k \in DOMAIN map \cup {key} |-> IF k = key THEN value ELSE map[k]]

EmptyMap == [k \in {} |-> Nil]

beginScope(b) == [b EXCEPT !.scopes = Append(@, EmptyMap)]
\* the warning for an unused local goes to console.warn, which is not modelled
endScope(b) == [b EXCEPT !.scopes = SubSeq(@, 1, Len(@) - 1)]

declare(b, name) ==
    IF Len(b.scopes) = 0 THEN b
    ELSE LET n == Len(b.scopes)
             b1 == IF name.lexeme \in DOMAIN b.scopes[n]
                   THEN [b EXCEPT !.ctx = ctxError(@, "Token", name.line,
                             "Cannot re-declare variable '" \o name.lexeme \o "'")]
                   ELSE b
         IN  [b1 EXCEPT !.scopes[n] =
                  mapSet(@, name.lexeme, [defined |-> FALSE, used |-> FALSE])]

define(b, name) ==
    IF Len(b.scopes) = 0 THEN b
    ELSE [b EXCEPT !.scopes[Len(b.scopes)][name.lexeme].defined = TRUE]

\* the resolver's context: the depth of the scope stack and the three flags
resolverContext(b) ==
    [depth |-> Len(b.scopes), currentFunction |-> b.currentFunction,
     currentLoop |-> b.currentLoop, currentClass |-> b.currentClass]

\* history of a function, loop, block or class resolved: the context before
\* and after it, and whether it reported errors
noteConstruct(b, kind, after) ==
    [after EXCEPT !.constructs =
         Append(@, [kind |-> kind, before |-> resolverContext(b),
                    after |-> resolverContext(after),
                    errors |-> Len(after.ctx.errors) - Len(b.ctx.errors)])]

\* a function that leaves the kind of its body behind
leaveFunctionKeep(b, enclosingFunction) == endScope(b)

\* the end of Resolver.resolveFunction
leaveFunction(b, enclosingFunction) ==
    [endScope(b) EXCEPT !.currentFunction = enclosingFunction]

\* the scopes of the stack, outermost first, that declare `lexeme`
declaringScopes(scopes, lexeme) == {i \in 1..Len(scopes) : lexeme \in DOMAIN scopes[i]}

SetMin(S) == CHOOSE m \in S : \A o \in S : m <= o
SetMax(S) == CHOOSE m \in S : \A o \in S : m >= o

\* Resolver.resolveLocal: `for (i = 0; i < scopes.length; ++i)`, first hit wins
resolveLocal(b, id, name) ==
    LET hits == declaringScopes(b.scopes, name.lexeme)
        n == Len(b.scopes)
        seen == [b EXCEPT !.declared =
                     mapSet(@, id, IF hits = {} THEN -1 ELSE n - SetMax(hits))]
    IN  IF hits = {} THEN seen
        ELSE LET i == SetMin(hits)
             IN  [seen EXCEPT !.scopes[i][name.lexeme].used = TRUE,
                              !.locals = mapSet(@, id, n - i)]

RECURSIVE resolveNode(_, _), resolveList(_, _), resolveFunction(_, _, _),
          resolveFunctions(_, _, _)

\* Resolver.resolve: accepts every non-null item in order
resolveList(b, list) ==
    IF list = <<>> THEN b
    ELSE Let(resolveNode(b, Head(list)), LAMBDA r : resolveList(r, Tail(list)))

resolveFunction(b, fn, kind) ==
    LET enclosingFunction == b.currentFunction
        b1 == beginScope([b EXCEPT !.currentFunction = kind])
        \* declare + define of each parameter (none when params is null)
        RECURSIVE params(_, _)
        params(bb, ps) ==
            IF ps = <<>> THEN bb
            ELSE params(define(declare(bb, Head(ps)), Head(ps)), Tail(ps))
    IN  Let(resolveList(IF fn.paramsNull THEN b1 ELSE params(b1, fn.params), fn.body),
            LAMBDA b2 : noteConstruct(b, "function", leaveFunction(b2, enclosingFunction)))

\* `for (...) this.resolveFunction(list[i], kind)`; a method named init is INIT
resolveFunctions(b, list, isMethod) ==
    IF list = <<>> THEN b
    ELSE LET fn == Head(list)
             kind == IF ~isMethod THEN "FUNCTION"
                     ELSE IF fn.name.lexeme = "init" THEN "INIT" ELSE "METHOD"
         IN  resolveFunctions(resolveFunction(b, fn, kind), Tail(list), isMethod)

visitClassStmtResolver(b, stmt) ==
    LET enclosing == b.currentClass
        b1 == define(declare([b EXCEPT !.currentClass = "CLASS"], stmt.name), stmt.name)
        hasSuper == stmt.superclass.type # "null"
    IN  Let(IF ~hasSuper THEN b1
              ELSE LET e == IF stmt.name.lexeme = stmt.superclass.name.lexeme
                            THEN [b1 EXCEPT !.ctx = ctxError(@, "LoxError",
                                      stmt.superclass.name.line,
                                      "A class can't inherit from itself")]
                            ELSE b1
                   IN  resolveNode([e EXCEPT !.currentClass = "SUBCLASS"], stmt.superclass), LAMBDA b2 :
    LET b3 == IF ~hasSuper THEN b2
              ELSE [beginScope(b2) EXCEPT !.scopes[Len(b2.scopes) + 1] =
                        mapSet(@, "super", [defined |-> TRUE, used |-> TRUE])]
    IN  Let(resolveFunctions(b3, stmt.staticMethods, FALSE), LAMBDA b4 :
    LET b5 == [beginScope(b4) EXCEPT !.scopes[Len(b4.scopes) + 1] =
                   mapSet(@, "this", [defined |-> TRUE, used |-> TRUE])]
    IN  Let(endScope(resolveFunctions(b5, stmt.methods, TRUE)), LAMBDA b6 :
    LET b7 == IF hasSuper THEN endScope(b6) ELSE b6
    IN  noteConstruct(b, IF hasSuper THEN "subclass" ELSE "class",
                      [b7 EXCEPT !.currentClass = enclosing]))))

resolveNode(b, n) ==
    CASE n.type = "null" -> b
      [] n.type = "Expression" -> resolveNode(b, n.expr)
      [] n.type = "Print" -> resolveNode(b, n.expr)
      [] n.type = "Var" -> define(resolveNode(declare(b, n.name), n.init), n.name)
      [] n.type = "Block" ->
            noteConstruct(b, "block", endScope(resolveList(beginScope(b), n.stmtList)))
      [] n.type = "If" -> resolveList(b, <<n.condition, n.thenBranch, n.elseBranch>>)
      [] n.type = "Loop" ->
            LET enclosing == b.currentLoop
                b1 == beginScope([b EXCEPT !.currentLoop = "SOME",
                                           !.loops = Append(@, n.id)])
            IN  Let(resolveList(b1, <<n.init, n.condition, n.update, n.body>>), LAMBDA b2 :
            noteConstruct(b, "loop", [endScope(b2) EXCEPT !.currentLoop = enclosing,
                                                          !.loops = b.loops]))
      [] n.type \in {"Break", "Continue"} ->
            LET b1 == [b EXCEPT !.enclosingLoops = mapSet(@, n.id, b.loops)]
            IN  IF b.currentLoop = "NONE"
                THEN [b1 EXCEPT !.ctx = ctxError(@, "Token", n.keyword.line,
                                         "Break statements are invalid outside of loops")]
                ELSE b1
      [] n.type = "FunctionStmt" ->
            resolveFunction(define(declare(b, n.name), n.name), n, "FUNCTION")
      [] n.type = "Return" ->
            LET b1 == IF b.currentFunction = "NONE"
                      THEN [b EXCEPT !.ctx = ctxError(@, "Token", n.keyword.line,
                                "Return statements are invalid at the top level")]
                      ELSE b
            IN  IF n.value.type = "null" THEN b1
                ELSE resolveNode(
                        IF b1.currentFunction = "INIT"
                        THEN [b1 EXCEPT !.ctx = ctxError(@, "Token", n.keyword.line,
                                  "Cannot return value from an initializer")]
                        ELSE b1, n.value)
      [] n.type = "Class" -> visitClassStmtResolver(b, n)
      [] n.type = "Unary" -> resolveNode(b, n.right)
      [] n.type = "Grouping" -> resolveNode(b, n.inner)
      [] n.type = "Literal" -> b
      [] n.type \in {"Binary", "Logical"} -> resolveList(b, <<n.left, n.right>>)
      [] n.type = "Variable" ->
            LET top == IF Len(b.scopes) = 0 THEN EmptyMap ELSE b.scopes[Len(b.scopes)]
                b1 == IF n.name.lexeme \in DOMAIN top /\ ~top[n.name.lexeme].defined
                      THEN [b EXCEPT !.ctx = ctxError(@, "LoxError", n.name.line,
                                "Cannot refer to a variable in it's own initializer")]
                      ELSE b
            IN  resolveLocal(b1, n.id, n.name)
      [] n.type = "Assign" -> resolveLocal(resolveNode(b, n.value), n.id, n.name)
      [] n.type = "Comma" -> resolveList(b, n.list)
      [] n.type = "Call" -> resolveList(resolveNode(b, n.callee), n.args)
      [] n.type = "FunctionExpr" -> resolveFunction(b, n, "FUNCTION")
      [] n.type = "Get" -> resolveNode(b, n.object)
      [] n.type = "Set" -> resolveList(b, <<n.value, n.object>>)
      [] n.type = "Delete" -> resolveNode(b, n.object)
      [] n.type = "This" ->
            IF b.currentClass = "NONE"
            THEN [b EXCEPT !.ctx = ctxError(@, "Token", n.keyword.line,
                                    "Cannot use 'this' outside of a class")]
            ELSE resolveLocal(b, n.id, n.keyword)
      [] n.type = "Super" ->
            LET b1 == IF b.currentClass = "NONE"
                      THEN [b EXCEPT !.ctx = ctxError(@, "Token", n.keyword.line,
                                "Cannot use 'super' outside of a class")]
                      ELSE IF b.currentClass # "SUBCLASS"
                      THEN [b EXCEPT !.ctx = ctxError(@, "Token", n.keyword.line,
                                "Cannot use 'super' in a class with no parent class")]
                      ELSE b
            IN  resolveLocal(b1, n.id, n.keyword)

\* Resolver.run.  The result is [resolver, ctx, locals, lexical]; lexical is
\* the history [declared, enclosingLoops, constructs] with the resolver
\* before the pass and its context after it.
resolverRun(resolver, ctx, locals, lexical, list) ==
    Let(resolveList([scopes |-> resolver.scopes,
                          currentFunction |-> resolver.currentFunction,
                          currentLoop |-> resolver.currentLoop,
                          currentClass |-> resolver.currentClass,
                          ctx |-> ctx, locals |-> locals,
                          declared |-> lexical.declared, loops |-> <<>>,
                          enclosingLoops |-> lexical.enclosingLoops,
                          constructs |-> <<>>], list), LAMBDA b :
    [resolver |-> [scopes |-> b.scopes, currentFunction |-> b.currentFunction,
                       currentLoop |-> b.currentLoop, currentClass |-> b.currentClass],
         ctx |-> b.ctx, locals |-> b.locals,
         lexical |-> [declared |-> b.declared, enclosingLoops |-> b.enclosingLoops,
                      constructs |-> b.constructs, before |-> resolver,
                      after |-> resolverContext(b)]])


(***************************************************************************)
(* env.ts: Environment.  The interpreter state i holds the frames in       *)
(* i.envs (a frame is [values, enclosing], enclosing = 0 for null) and the *)
(* objects in i.heap; a frame or an object is named by its index.  A       *)
(* completion is [i, k, v]: k = "ok" with the value v, or what was thrown: *)
(* "LoxError" (v = [line, msg]), "Return" (v = the value), "Break" and     *)
(* "Continue" (v = the statement), "host" (any other host exception) and   *)
(* "panic" (the process has exited).                                       *)
(***************************************************************************)
GlobalsId == 1

Ok(i, v) == [i |-> i, k |-> "ok", v |-> v]
Throw(i, k, v) == [i |-> i, k |-> k, v |-> v]
LoxError(i, line, message) == Throw(i, "LoxError", [line |-> line, msg |-> message])
panic(i, message) == Throw(i, "panic", [line |-> 0, msg |-> "PANIC: " \o message])
TypeError(i) == Throw(i, "host", [line |-> 0, msg |-> "TypeError"])

\* new Environment(enclosing)
newEnvironment(i, enclosing) ==
    [i EXCEPT !.envs = Append(@, [values |-> EmptyMap, enclosing |-> enclosing])]

\* Environment.define(name, value)
envDefine(i, env, name, value) ==
    [i EXCEPT !.envs[env].values = mapSet(@, name, value)]

\* Environment.ancestor: 0 when the chain ends before `depth` hops
RECURSIVE ancestor(_, _, _)
ancestor(i, env, depth) ==
    IF depth <= 0 \/ env = 0 THEN env ELSE ancestor(i, i.envs[env].enclosing, depth - 1)

\* Environment.assign
envAssign(i, env, name, value) ==
    IF name.lexeme \in DOMAIN i.envs[env].values
    THEN Ok(envDefine(i, env, name.lexeme, value), value)
    ELSE LoxError(i, name.line, "Undefined variable '" \o name.lexeme \o "'")

\* Environment.assignAt
envAssignAt(i, env, depth, name, value) ==
    LET scope == ancestor(i, env, depth)
    IN  IF scope = 0 THEN TypeError(i)
        ELSE IF name.lexeme \in DOMAIN i.envs[scope].values
        THEN Ok(envDefine(i, scope, name.lexeme, value), value)
        ELSE panic(i, "Unresolved variable '" \o name.lexeme \o "'")

\* the shared body of Environment.get and Environment.getAt once the frame is known
envRead(i, scope, name, missing) ==
    IF name.lexeme \in DOMAIN i.envs[scope].values
    THEN LET val == i.envs[scope].values[name.lexeme]
         IN  IF val.t # "undefined" THEN Ok(i, val)
             ELSE LoxError(i, name.line, "Uninitialized variable '" \o name.lexeme \o "'")
    ELSE missing

\* Environment.get
envGet(i, env, name) ==
    envRead(i, env, name,
            LoxError(i, name.line, "Undefined variable '" \o name.lexeme \o "'"))

\* Environment.getAt
envGetAt(i, env, depth, name) ==
    LET scope == ancestor(i, env, depth)
    IN  IF scope = 0 THEN TypeError(i)
        ELSE envRead(i, scope, name, panic(i, "Unresolved variable '" \o name.lexeme \o "'"))

\* Environment.getUncheckedAt: the value, or undefined; completion because the
\* frame itself may be missing
envGetUncheckedAt(i, env, depth, name) ==
    LET scope == ancestor(i, env, depth)
    IN  IF scope = 0 THEN TypeError(i)
        ELSE IF name \in DOMAIN i.envs[scope].values THEN Ok(i, i.envs[scope].values[name])
        ELSE Ok(i, Undefined)

(***************************************************************************)
(* interpreter.ts: values, functions, classes, instances                   *)
(***************************************************************************)
NoFunc == [kind |-> "none"]

FuncImpl(decl, closure, isInit) ==
    [kind |-> "func", decl |-> decl, closure |-> closure, isInit |-> isInit]

\* new NativeFuncImpl(name, arity, isGetter, fn): no instance is bound.  fn
\* describes the host callable: one of the constructor's three, or
\* [host |-> TRUE, name, length, result, nullish] for a callable of the
\* embedding program (nullish: its result goes through `?? null`)
NativeFuncImpl(name, arity, isGetter, fn) ==
    [kind |-> "native", name |-> name, arity |-> arity, isGetter |-> isGetter,
     fn |-> fn, instance |-> 0]
builtin(name) == [host |-> FALSE, name |-> name]

\* the object { name, value } that makefn returns
Binding(name, value) == [kind |-> "binding", name |-> name, value |-> value]

\* `new X(...)`: the object gets the next index of the heap
alloc(i, object) == [i EXCEPT !.heap = Append(@, object)]
lastRef(i) == Ref(Len(i.heap))

\* type(value)
typeOf(i, value) ==
    CASE value.t = "boolean" -> "boolean"
      [] value.t = "number" -> "number"
      [] value.t = "string" -> "string"
      [] value.t = "nil" -> "nil"
      [] value.t = "ref" ->
            LET kind == i.heap[value.ref].kind
            IN  CASE kind = "class" -> "class"
                  [] kind = "instance" -> "object"
                  [] kind \in {"func", "native"} -> "func"
                  [] OTHER -> "unknown"
      [] OTHER -> "unknown"

isTruthy(value) ==
    IF value.t = "nil" THEN FALSE
    ELSE IF value.t = "boolean" THEN value.b
    ELSE TRUE

isEqual(left, right) == IF left.t # right.t THEN FALSE ELSE left = right

\* FuncImpl.arity: `this.decl.params?.length ?? 0`
funcArity(f) ==
    IF f.kind = "native" THEN f.arity
    ELSE IF f.decl.paramsNull THEN 0
    ELSE Len(f.decl.params)
funcIsGetter(f) == IF f.kind = "native" THEN f.isGetter ELSE f.decl.paramsNull

\* FuncImpl.bind: a frame holding `this` between the call frame and the closure
bind(i, f, instance) ==
    LET i1 == newEnvironment(i, f.closure)
        env == Len(i1.envs)
    IN  alloc(envDefine(i1, env, "this", instance), FuncImpl(f.decl, env, f.isInit))

\* NativeFuncImpl.bind: the same function with the instance attached
nativeBind(i, f, instance) == alloc(i, [f EXCEPT !.instance = instance.ref])

\* `method.bind(instance)`, on a FuncImpl or a NativeFuncImpl
bindMethod(i, method, instance) ==
    IF method.kind = "native" THEN nativeBind(i, method, instance)
    ELSE bind(i, method, instance)

\* one more entry of the interpreter's history
note(i, entry) == [i EXCEPT !.history = Append(@, entry)]

\* ClassImpl.findMethod: own methods, then the superclass chain
RECURSIVE findMethod(_, _, _)
findMethod(i, class, name) ==
    LET c == i.heap[class]
    IN  IF name \in DOMAIN c.methods THEN c.methods[name]
        ELSE IF c.superclass # 0 THEN findMethod(i, c.superclass, name)
        ELSE NoFunc

\* ClassInstance.getOpt (the body ClassInstance.get shares): the field, else
\* the method bound to the object; v = Undefined when neither exists.  A
\* class object is its own proto.  NativeClassInstance.getOpt is the same.
getOpt(i, object, name) ==
    LET o == i.heap[object]
        proto == IF o.kind = "class" THEN object ELSE o.proto
        method == findMethod(i, proto, name)
    IN  IF name \in DOMAIN o.fields /\ o.fields[name].t # "undefined"
        THEN Ok(i, o.fields[name])
        ELSE IF method.kind # "none"
        THEN LET i1 == bindMethod(i, method, Ref(object)) IN Ok(i1, lastRef(i1))
        ELSE Ok(i, Undefined)

\* ClassInstance.get
instanceGet(i, object, name) ==
    LET r == getOpt(i, object, name.lexeme)
    IN  IF r.v.t # "undefined" THEN r
        ELSE LoxError(i, name.line, "Undefined property '" \o name.lexeme \o "'")

\* history of a read of a property of an instance: the object, the name,
\* the field of that name if the object has one, the method of that name if
\* the object's class chain has one, and how the read ended
noteGet(i, object, name, r) ==
    [r EXCEPT !.i = note(@, [op |-> "get", object |-> object, name |-> name,
                             field |-> name \in DOMAIN i.heap[object].fields,
                             value |-> IF name \in DOMAIN i.heap[object].fields
                                       THEN i.heap[object].fields[name] ELSE Undefined,
                             found |-> findMethod(i, i.heap[object].proto, name),
                             method |-> findMethod(i, i.heap[object].proto, name).kind # "none",
                             k |-> r.k, v |-> r.v])]

\* history of the end of visitGetExpr on an instance: the entry of the read,
\* whether the member read was called as a getter, and the result
noteGot(at, getter, r) ==
    [r EXCEPT !.i = note(@, [op |-> "got", at |-> at, getter |-> getter,
                             k |-> r.k, v |-> r.v])]

\* ClassImpl.getStaticOpt: `this.fields.get(name) ?? this.superclass?.getStaticOpt(name)`;
\* `??` passes on both undefined and null.  NativeClassImpl.getStaticOpt is
\* `this.fields.get(name.lexeme)`.
RECURSIVE getStaticOpt(_, _, _)
getStaticOpt(i, class, name) ==
    LET c == i.heap[class]
        own == IF name \in DOMAIN c.fields THEN c.fields[name] ELSE Undefined
    IN  IF c.native \/ own.t \notin {"undefined", "nil"} THEN own
        ELSE IF c.superclass # 0 THEN getStaticOpt(i, c.superclass, name)
        ELSE Undefined

\* ClassImpl.getStatic: as getStaticOpt, but every class of the chain that is
\* reached throws when it finds nothing
getStatic(i, class, name) ==
    LET v == getStaticOpt(i, class, name.lexeme)
    IN  IF v.t # "undefined" THEN Ok(i, v)
        ELSE LoxError(i, name.line, "Undefined property '" \o name.lexeme \o "'")

\* the nearest class of the superclass chain whose static members include
\* `name` (0 if none does), and the member it holds
RECURSIVE staticOwner(_, _, _)
staticOwner(i, class, name) ==
    IF name \in DOMAIN i.heap[class].fields THEN class
    ELSE IF i.heap[class].superclass # 0
    THEN staticOwner(i, i.heap[class].superclass, name)
    ELSE 0
staticMember(i, class, name) ==
    LET owner == staticOwner(i, class, name)
    IN  IF owner = 0 THEN Undefined ELSE i.heap[owner].fields[name]

\* history of a static read: the class asked, the name, the member the chain
\* holds and how the read ended
noteStatic(i, via, class, name, r) ==
    [r EXCEPT !.i = note(@, [op |-> "static", via |-> via, class |-> class,
                             name |-> name, owner |-> staticOwner(i, class, name),
                             want |-> staticMember(i, class, name),
                             k |-> r.k, v |-> r.v])]

\* history of an evaluation of `super.name`: the expression, the environment
\* it ran in and how it ended
noteSuper(i, expr, r) ==
    [r EXCEPT !.i = note(@, [op |-> "super", id |-> expr.id, env |-> i.env,
                             name |-> expr.value.lexeme, k |-> r.k, v |-> r.v])]

\* the fields of an object, none for no object
fieldsOf(i, object) == IF object = 0 THEN EmptyMap ELSE i.heap[object].fields

\* ClassInstance.set / ClassImpl.setStatic
setField(i, object, name, value) ==
    Ok([i EXCEPT !.heap[object].fields = mapSet(@, name, value)], value)

delFieldKeep(i, object, name) ==
    Ok(i, Bool(name \in DOMAIN i.heap[object].fields))

\* ClassInstance.del: Map.delete
delField(i, object, name) ==
    LET fields == i.heap[object].fields
    IN  IF name \in DOMAIN fields
        THEN Ok([i EXCEPT !.heap[object].fields = [k \in DOMAIN fields \ {name} |-> fields[k]]],
                Bool(TRUE))
        ELSE Ok(i, Bool(FALSE))

\* new ClassImpl(name, superclass, methods): init is looked up through
\* findMethod and deleted from the class's own method map
newClassImpl(i, name, superclass, methods) ==
    LET init == IF "init" \in DOMAIN methods THEN methods["init"]
                ELSE IF superclass # 0 THEN findMethod(i, superclass, "init")
                ELSE NoFunc
    IN  alloc(i, [kind |-> "class", native |-> FALSE, name |-> name,
                  superclass |-> superclass,
                  methods |-> IF init.kind # "none"
                              THEN [k \in DOMAIN methods \ {"init"} |-> methods[k]]
                              ELSE methods,
                  fields |-> EmptyMap,
                  arity |-> IF init.kind # "none" THEN funcArity(init) ELSE 0,
                  initializer |-> init])

\* join(arr, sep); an empty array gives arr[-1], that is "undefined"
RECURSIVE joinFrom(_, _, _)
joinFrom(arr, sep, k) ==
    IF k >= Len(arr) THEN arr[k] ELSE arr[k] \o sep \o joinFrom(arr, sep, k + 1)

join(arr, sep) == IF arr = <<>> THEN "undefined" ELSE joinFrom(arr, sep, 1)

\* Array.prototype.join
arrayJoin(arr, sep) == IF arr = <<>> THEN "" ELSE joinFrom(arr, sep, 1)

RECURSIVE stringify(_, _), toString(_, _), properties(_, _, _), methodProperties(_, _, _)

\* `key: value` for each entry of a Map (a Map iterates in insertion order;
\* here the order is the one CHOOSE gives)
properties(i, map, keys) ==
    IF keys = {} THEN <<>>
    ELSE LET k == CHOOSE x \in keys : TRUE
         IN  <<k \o ": " \o (IF map[k].t = "obj" THEN toString(i, map[k].obj)
                             ELSE stringify(i, map[k]))>>
             \o properties(i, map, keys \ {k})

\* ClassInstance.toString, the two loops over methods: the class's own, then
\* each superclass's, skipping init and the names of the instance's fields
methodProperties(i, class, fields) ==
    IF class = 0 THEN <<>>
    ELSE LET c == i.heap[class]
             methods == [k \in DOMAIN c.methods |-> [t |-> "obj", obj |-> c.methods[k]]]
         IN  properties(i, methods, DOMAIN c.methods \ (fields \cup {"init"}))
             \o methodProperties(i, c.superclass, fields)

\* toString() of FuncImpl, NativeFuncImpl, ClassImpl and ClassInstance, and
\* Object.prototype.toString for the plain object of a Binding
toString(i, object) ==
    CASE object.kind = "func" ->
            "<" \o (IF object.decl.paramsNull THEN "getter" ELSE "fn") \o " "
            \o (IF object.decl.name.type = "null" THEN "anonymous"
                ELSE object.decl.name.lexeme) \o ">"
      [] object.kind = "native" ->
            "<native " \o (IF object.isGetter THEN "getter" ELSE "fn") \o " "
            \o object.name \o ">"
      [] object.kind = "class" -> "<class " \o object.name \o ">"
      [] object.kind = "binding" -> "[object Object]"
      [] object.kind = "instance" ->
            Let(properties(i, object.fields, DOMAIN object.fields)
                         \o methodProperties(i, object.proto, DOMAIN object.fields), LAMBDA props :
            LET pad == IF props # <<>> THEN " " ELSE ""
            IN  i.heap[object.proto].name \o " {" \o pad \o arrayJoin(props, ", ")
                \o pad \o "}")

\* stringify(value); numbers are integers here, so Infinity does not occur
stringify(i, value) ==
    CASE value.t = "nil" -> "nil"
      [] value.t = "boolean" -> IF value.b THEN "true" ELSE "false"
      [] value.t = "number" -> ToString(value.n)
      [] value.t = "string" -> value.s
      [] value.t = "ref" -> toString(i, i.heap[value.ref])
      [] OTHER -> "undefined"

(***************************************************************************)
(* interpreter.ts: Interpreter.  i = [envs, env, heap, locals, out,        *)
(* thisReads, signals, history]: env is `this.env`, out the lines          *)
(* console.log got in this run; thisReads, signals and history are         *)
(* history: each evaluation of `this` with the value it gave and the       *)
(* `this` of the nearest frame that binds one, each Break or Continue a    *)
(* loop caught, and the operations of the run on classes, objects, loops   *)
(* and functions, each an entry [op |-> ..., ...].                         *)
(***************************************************************************)
Abs(n) == IF n < 0 THEN -n ELSE n

\* a double that is no integer (a fraction, NaN, an infinity)
NotInteger == [t |-> "number", n |-> 0, frac |-> TRUE]

\* the arithmetic of visitBinaryExpr on two numbers
arithmetic(op, l, r) ==
    IF "frac" \in DOMAIN l \/ "frac" \in DOMAIN r THEN NotInteger
    ELSE LET a == l.n
             b == r.n
         IN  CASE op = "MINUS" -> Num(a - b)
               [] op = "PLUS" -> Num(a + b)
               [] op = "STAR" -> Num(a * b)
               [] op = "SLASH" ->
                     IF b # 0 /\ Abs(a) % Abs(b) = 0
                     THEN Num((IF (a < 0) = (b < 0) THEN 1 ELSE -1) * (Abs(a) \div Abs(b)))
                     ELSE NotInteger
               [] op = "PERCENT" ->
                     IF b # 0 THEN Num((IF a < 0 THEN -1 ELSE 1) * (Abs(a) % Abs(b)))
                     ELSE NotInteger
               [] op = "POWER" -> IF b >= 0 THEN Num(a ^ b) ELSE NotInteger

\* the comparisons of visitBinaryExpr on two numbers
compare(op, l, r) ==
    CASE op = "GREATER" -> Bool(l.n > r.n)
      [] op = "GREATER_EQUAL" -> Bool(l.n >= r.n)
      [] op = "LESS" -> Bool(l.n < r.n)
      [] op = "LESS_EQUAL" -> Bool(l.n <= r.n)

\* Interpreter.visitBinaryExpr once both operands are evaluated
binary(i, op, left, right) ==
    CASE op.type = "BANG_EQUAL" -> Ok(i, Bool(~isEqual(left, right)))
      [] op.type = "EQUAL_EQUAL" -> Ok(i, Bool(isEqual(left, right)))
      [] op.type = "PLUS" ->
            IF left.t = "number" /\ right.t = "number"
            THEN Ok(i, arithmetic("PLUS", left, right))
            ELSE IF left.t = "string" /\ right.t = "string"
            THEN Ok(i, Str(left.s \o right.s))
            ELSE LoxError(i, op.line, "Operands must both be a number or a string")
      [] OTHER ->
            \* assertType(left, "number", ..), assertType(right, "number", ..)
            IF left.t # "number" \/ right.t # "number"
            THEN LoxError(i, op.line, "Operand must be a number")
            ELSE IF op.type \in {"GREATER", "GREATER_EQUAL", "LESS", "LESS_EQUAL"}
            THEN Ok(i, compare(op.type, left, right))
            ELSE Ok(i, arithmetic(op.type, left, right))

\* history of a loop: the statement, the loop's environment, whether it has
\* an update clause, the step, how it ended and the current environment
noteLoop(i, stmt, scope, at, how) ==
    note(i, [op |-> "loop", loop |-> stmt.id, scope |-> scope,
             update |-> stmt.update.type # "null", at |-> at, how |-> how, env |-> i.env])

\* the `this` of the nearest frame that binds one, from env outwards
RECURSIVE nearestThis(_, _)
nearestThis(i, env) ==
    IF env = 0 THEN Undefined
    ELSE IF "this" \in DOMAIN i.envs[env].values THEN i.envs[env].values["this"]
    ELSE nearestThis(i, i.envs[env].enclosing)

\* history of a variable expression or assignment: the expression, the
\* current environment and the environment in which the code looks the name
\* up, the name, the value to assign and the globals then
noteAccess(i, op, id, name, value) ==
    note(i, [op |-> op, id |-> id, env |-> i.env,
             at |-> IF id \in DOMAIN i.locals THEN ancestor(i, i.env, i.locals[id])
                    ELSE GlobalsId,
             name |-> name.lexeme, value |-> value,
             globals |-> i.envs[GlobalsId].values])

\* history of how the access noted last ended, and the globals then
noteAccessed(i, r) ==
    [r EXCEPT !.i = note(r.i, [op |-> "accessed", of |-> Len(i.history), k |-> r.k,
                               v |-> r.v, globals |-> r.i.envs[GlobalsId].values])]

\* Interpreter.visitVarStmt's define.  The history gets the declaration.
defineVar(i, name, value) ==
    note(envDefine(i, i.env, name, value),
         [op |-> "var", name |-> name, env |-> i.env, value |-> value])

\* Interpreter.lookup
lookup(i, name, id) ==
    IF id \in DOMAIN i.locals THEN envGetAt(i, i.env, i.locals[id], name)
    ELSE envGet(i, GlobalsId, name)

\* a callable of the embedding program runs: the history gets the call, with
\* its `this` (0 for a plain call) and its arguments; what it returns is
\* undefined or nil
hostCall(i, fn, instance, args) ==
    Ok(note(i, [op |-> "host", fn |-> fn.name, length |-> fn.length,
                instance |-> instance, args |-> args]),
       IF fn.result = "undefined" THEN Undefined ELSE Nil)

\* the `fn` of a NativeFuncImpl: the natives the constructor defines (type,
\* time, str; the clock reads 0), a callable given to makeclass, or the
\* `(_, args) => fn(...args) ?? null` that Lox.func makes
nativeFn(i, fn, instance, args) ==
    IF ~fn.host
    THEN CASE fn.name = "type" -> Ok(i, Str(typeOf(i, args[1])))
           [] fn.name = "time" -> Ok(i, Num(0))
           [] fn.name = "str" -> Ok(i, Str(stringify(i, args[1])))
    ELSE LET r == hostCall(i, fn, instance, args)
         IN  IF fn.nullish /\ r.v.t \in {"undefined", "nil"} THEN Ok(r.i, Nil) ELSE r

\* NativeFuncImpl.call: when an instance is bound, fn runs with it as `this`,
\* and then fn runs again as a plain call.  The history gets the call and
\* the number of times the host callable ran in it.
nativeCall(i, f, args) ==
    LET first == IF f.instance = 0 THEN Ok(i, Nil)
                 ELSE nativeFn(i, f.fn, f.instance, args)
        r == IF first.k # "ok" THEN first ELSE nativeFn(first.i, f.fn, 0, args)
    IN  [r EXCEPT !.i = note(@, [op |-> "native", name |-> f.name, fn |-> f.fn,
                                 instance |-> f.instance, args |-> args,
                                 invoked |-> Cardinality({n \in Len(i.history) + 1..Len(r.i.history) :
                                                             r.i.history[n].op = "host"}),
                                 k |-> r.k, v |-> r.v])]

\* the loop of FuncImpl.call that defines the parameters
RECURSIVE defineParams(_, _, _, _, _)
defineParams(i, env, params, args, k) ==
    IF k > Len(params) THEN i
    ELSE defineParams(envDefine(i, env, params[k].lexeme, args[k]), env, params, args, k + 1)

\* the `callee.call == null || callee.arity == null` test of visitCallExpr
isCallable(i, callee) ==
    callee.t = "ref" /\ i.heap[callee.ref].kind \in {"func", "native", "class"}

arityOf(i, callee) ==
    LET o == i.heap[callee.ref]
    IN  IF o.kind = "class" THEN o.arity ELSE funcArity(o)


RECURSIVE evaluate(_, _), evaluateList(_, _, _), execute(_, _), executeList(_, _, _, _),
          executeBlock(_, _, _), funcCall(_, _, _), classCall(_, _, _), callValue(_, _, _),
          loop(_, _, _, _), visitCallExpr(_, _), visitGetExpr(_, _), visitSetExpr(_, _),
          visitDeleteExpr(_, _), visitSuperExpr(_, _), visitPrintStmt(_, _),
          printParts(_, _, _, _), visitLoopStmt(_, _), visitClassStmt(_, _)

\* evaluates list[k..] in order; v is the sequence of the values
evaluateList(i, list, k) ==
    IF k > Len(list) THEN Ok(i, <<>>)
    ELSE Let(evaluate(i, list[k]), LAMBDA r :
         IF r.k # "ok" THEN r
             ELSE Let(evaluateList(r.i, list, k + 1), LAMBDA rest :
                  IF rest.k # "ok" THEN rest ELSE Ok(rest.i, <<r.v>> \o rest.v)))

\* the `for` loop of interpret (top) and of executeBlock.  The history gets
\* each statement of interpret's list as it starts, with the globals then.
executeList(i, stmtList, k, top) ==
    IF k > Len(stmtList) THEN Ok(i, Nil)
    ELSE Let(execute(IF top THEN note(i, [op |-> "stmt", stmt |-> k,
                                          globals |-> i.envs[GlobalsId].values])
                     ELSE i, stmtList[k]), LAMBDA r :
         IF r.k # "ok" THEN r ELSE executeList(r.i, stmtList, k + 1, top))

\* history of a construct that has ended: the current environment before it
\* began and after it ended, and how it ended
noteEnd(r, op, before) ==
    [r EXCEPT !.i = note(r.i, [op |-> op, before |-> before, after |-> r.i.env,
                               how |-> r.k])]

\* a block that puts the environment back only when it reaches its end
restoreOnEnd(r, prevEnv) ==
    IF r.k = "ok" THEN [r EXCEPT !.i.env = prevEnv] ELSE r

\* the `finally` of Interpreter.executeBlock: env is put back whatever was
\* thrown (nothing runs after the process has exited)
restoreEnv(r, prevEnv) ==
    IF r.k = "panic" THEN r ELSE [r EXCEPT !.i.env = prevEnv]

\* Interpreter.executeBlock.  The history gets the end of the block.
executeBlock(i, stmtList, env) ==
    Let(executeList([i EXCEPT !.env = env], stmtList, 1, FALSE), LAMBDA r :
    noteEnd(restoreEnv(r, i.env), "block", i.env))

\* FuncImpl.call: only a ReturnValue is caught.  The history gets the call
\* (the environment the function closes over, the frame made for the call and
\* that frame's parent, and the environments that existed before), and how
\* the body of an initializer ended.
funcCall(i, f, args) ==
    LET i1 == newEnvironment(i, f.closure)
        env == Len(i1.envs)
        i2 == IF f.decl.paramsNull THEN i1
              ELSE defineParams(i1, env, f.decl.params, args, 1)
        i3 == note(i2, [op |-> "call", closure |-> f.closure, frame |-> env,
                        parent |-> i1.envs[env].enclosing, before |-> Len(i.envs)])
    IN  Let(executeBlock(i3, f.decl.body, env), LAMBDA r :
    LET ri == IF f.isInit THEN note(r.i, [op |-> "init", how |-> r.k]) ELSE r.i
    IN  noteEnd(IF r.k = "Return" THEN Ok(ri, r.v)
                ELSE IF r.k = "ok" THEN Ok(ri, Nil)
                ELSE [r EXCEPT !.i = ri], "called", i.env))

\* ClassImpl.call, and NativeClassImpl.call, whose initializer is a
\* NativeFuncImpl.  The history gets the call of a class that has an
\* initializer: the instance made, the value returned and the instance's
\* fields at that moment.
classCall(i, class, args) ==
    LET i1 == alloc(i, [kind |-> "instance", proto |-> class, fields |-> EmptyMap])
        instance == lastRef(i1)
        init == i.heap[class].initializer
    IN  IF init.kind = "none" THEN Ok(i1, instance)
        ELSE LET i2 == bindMethod(i1, init, instance)
                 bound == i2.heap[Len(i2.heap)]
             IN  Let(IF bound.kind = "native" THEN nativeCall(i2, bound, args)
                     ELSE funcCall(i2, bound, args), LAMBDA r :
             IF r.k # "ok" THEN r
             ELSE Ok(note(r.i, [op |-> "construct", class |-> class,
                                instance |-> instance.ref, v |-> instance,
                                fields |-> r.i.heap[instance.ref].fields]),
                     instance))

\* callee.callValue(interpreter, args)
callValue(i, callee, args) ==
    LET o == i.heap[callee]
    IN  CASE o.kind = "func" -> funcCall(i, o, args)
          [] o.kind = "class" -> classCall(i, callee, args)
          [] o.kind = "native" -> nativeCall(i, o, args)

\* history of a call expression whose callee and arguments have been
\* evaluated: the expression, where its evaluation began, the values, and
\* what is thrown before the call, if anything
noteChecks(i, expr, start, callee, args, thrown) ==
    note(i, [op |-> "checks", expr |-> expr, start |-> start, callee |-> callee,
             args |-> args, thrown |-> thrown])

\* a call expression that tests the callee before it evaluates the arguments
evaluateArgs(i, callee, list) ==
    IF isCallable(i, callee) THEN evaluateList(i, list, 1) ELSE Ok(i, <<>>)

\* the loop over expr.args of Interpreter.visitCallExpr
evaluateEveryArg(i, callee, list) == evaluateList(i, list, 1)

\* Interpreter.visitCallExpr.  The history gets the checks made once callee
\* and arguments are evaluated.
visitCallExpr(i, expr) ==
    Let(evaluate(i, expr.callee), LAMBDA c :
    IF c.k # "ok" THEN c ELSE
    Let(evaluateEveryArg(c.i, c.v, expr.args), LAMBDA a :
    IF a.k # "ok" THEN a
        ELSE IF ~isCallable(a.i, c.v)
        THEN LoxError(noteChecks(a.i, expr, Len(i.history), c.v, a.v,
                                 "Value is not callable"),
                      expr.end.line, "Value is not callable")
        ELSE IF Len(a.v) # arityOf(a.i, c.v)
        THEN LET message == "Expected " \o ToString(arityOf(a.i, c.v))
                            \o " args but got " \o ToString(Len(a.v))
             IN  LoxError(noteChecks(note(a.i, [op |-> "arity", callee |-> a.i.heap[c.v.ref],
                                                line |-> expr.end.line, got |-> Len(a.v)]),
                                     expr, Len(i.history), c.v, a.v, message),
                          expr.end.line, message)
        ELSE callValue(noteChecks(a.i, expr, Len(i.history), c.v, a.v, ""),
                       c.v.ref, a.v)))

visitGetExpr(i, expr) ==
    Let(evaluate(i, expr.object), LAMBDA o :
    IF o.k # "ok" THEN o ELSE
    LET t == typeOf(o.i, o.v)
    IN  IF t = "object"
        THEN LET prop == noteGet(o.i, o.v.ref, expr.name.lexeme,
                                 instanceGet(o.i, o.v.ref, expr.name))
             IN  IF prop.k # "ok" THEN prop
                 ELSE IF typeOf(prop.i, prop.v) = "func"
                         /\ funcIsGetter(prop.i.heap[prop.v.ref])
                 THEN Let(callValue(prop.i, prop.v.ref, <<>>), LAMBDA r :
                          noteGot(Len(prop.i.history), TRUE, r))
                 ELSE noteGot(Len(prop.i.history), FALSE, prop)
        ELSE IF t = "class"
        THEN noteStatic(o.i, "get", o.v.ref, expr.name.lexeme,
                        getStatic(o.i, o.v.ref, expr.name))
        ELSE LoxError(o.i, expr.name.line, "Value is not a class instance"))

\* Interpreter.visitSetExpr.  The history gets the write: the object written,
\* whether the program wrote it as `this`, the `this` of the nearest
\* frame that binds one, and the superclass of a class written, with its
\* static members before and after.
visitSetExpr(i, expr) ==
    Let(evaluate(i, expr.object), LAMBDA o :
    IF o.k # "ok" THEN o
        ELSE IF typeOf(o.i, o.v) \in {"object", "class"}
        THEN Let(evaluate(o.i, expr.value), LAMBDA v :
             IF v.k # "ok" THEN v
             ELSE LET set == setField(v.i, o.v.ref, expr.name.lexeme, v.v)
                      superclass == IF typeOf(o.i, o.v) = "class"
                                    THEN v.i.heap[o.v.ref].superclass ELSE 0
                  IN  [set EXCEPT !.i =
                           note(@, [op |-> "write", object |-> o.v.ref,
                                    name |-> expr.name.lexeme, value |-> v.v,
                                    self |-> expr.object.type = "This",
                                    receiver |-> nearestThis(v.i, v.i.env),
                                    superclass |-> superclass,
                                    before |-> fieldsOf(v.i, superclass),
                                    after |-> fieldsOf(set.i, superclass)])])
        ELSE LoxError(o.i, expr.name.line, "Value is not a class instance"))

\* Interpreter.visitDeleteExpr.  The history gets the delete: the object, the
\* name, the result, and the object's fields before and after.
visitDeleteExpr(i, expr) ==
    Let(evaluate(i, expr.object), LAMBDA o :
    IF o.k # "ok" THEN o
        ELSE IF typeOf(o.i, o.v) \in {"object", "class"}
        THEN LET del == delField(o.i, o.v.ref, expr.name.lexeme)
             IN  [del EXCEPT !.i =
                      note(@, [op |-> "delete", object |-> o.v.ref,
                               name |-> expr.name.lexeme, v |-> del.v,
                               before |-> fieldsOf(o.i, o.v.ref),
                               after |-> fieldsOf(del.i, o.v.ref)])]
        ELSE LoxError(o.i, expr.name.line, "Value is not a class instance"))

\* Interpreter.visitSuperExpr: `super` is read at the recorded depth, `this`
\* one frame nearer; superclass.getOpt binds a method to the superclass
\* object, and the result is bound again to the object.  The history gets
\* the evaluation.
visitSuperExpr(i, expr) ==
    noteSuper(i, expr,
    IF expr.id \notin DOMAIN i.locals THEN TypeError(i) ELSE
    LET depth == i.locals[expr.id]
        sc == envGetUncheckedAt(i, i.env, depth, "super")
        ob == envGetUncheckedAt(i, i.env, depth - 1, "this")
        undef == LoxError(i, expr.keyword.line,
                          "Undefined property '" \o expr.value.lexeme \o "'")
    IN  IF sc.k # "ok" THEN sc
        ELSE IF ob.k # "ok" THEN ob
        ELSE IF sc.v.t # "ref" \/ i.heap[sc.v.ref].kind # "class" THEN TypeError(i)
        ELSE IF ob.v.t = "undefined"
        THEN LET value == getStaticOpt(i, sc.v.ref, expr.value.lexeme)
             IN  noteStatic(i, "super", sc.v.ref, expr.value.lexeme,
                            IF value.t = "undefined" THEN undef ELSE Ok(i, value))
        ELSE LET value == getOpt(i, sc.v.ref, expr.value.lexeme)
             IN  IF value.v.t = "undefined" THEN undef
                 ELSE IF typeOf(value.i, value.v) = "func"
                 THEN LET i1 == bindMethod(value.i, value.i.heap[value.v.ref], ob.v)
                      IN  Ok(i1, lastRef(i1))
                 ELSE value)


\* Interpreter.evaluate: expr.accept(this), with the short visit methods inline
evaluate(i, expr) ==
    CASE expr.type = "Literal" -> Ok(i, expr.value)
      [] expr.type = "Grouping" -> evaluate(i, expr.inner)
      [] expr.type = "Variable" ->
            LET i1 == noteAccess(i, "read", expr.id, expr.name, Undefined)
            IN  noteAccessed(i1, lookup(i1, expr.name, expr.id))
      [] expr.type = "This" ->
            LET r == lookup(i, expr.keyword, expr.id)
            IN  IF r.k # "ok" THEN r
                ELSE Ok([r.i EXCEPT !.thisReads =
                             Append(@, [id |-> expr.id, got |-> r.v,
                                        receiver |-> nearestThis(i, i.env)])], r.v)
      [] expr.type = "Assign" ->
            Let(evaluate(i, expr.value), LAMBDA v :
            IF v.k # "ok" THEN v
                ELSE LET i1 == noteAccess(v.i, "assign", expr.id, expr.name, v.v)
                     IN  noteAccessed(i1,
                             IF expr.id \in DOMAIN v.i.locals
                             THEN envAssignAt(i1, v.i.env, v.i.locals[expr.id],
                                              expr.name, v.v)
                             ELSE envAssign(i1, GlobalsId, expr.name, v.v)))
      [] expr.type = "Unary" ->
            Let(evaluate(i, expr.right), LAMBDA r :
            IF r.k # "ok" THEN r
                ELSE IF expr.op.type = "BANG" THEN Ok(r.i, Bool(~isTruthy(r.v)))
                ELSE IF expr.op.type = "MINUS"
                THEN IF r.v.t # "number"
                     THEN LoxError(r.i, expr.op.line, "Operand must be a number")
                     ELSE Ok(r.i, arithmetic("MINUS", Num(0), r.v))
                ELSE Ok(r.i, Nil))
      [] expr.type = "Binary" ->
            Let(evaluate(i, expr.left), LAMBDA l :
            IF l.k # "ok" THEN l
                ELSE Let(evaluate(l.i, expr.right), LAMBDA r :
                     IF r.k # "ok" THEN r ELSE binary(r.i, expr.op, l.v, r.v)))
      [] expr.type = "Logical" ->
            Let(evaluate(i, expr.left), LAMBDA l :
            IF l.k # "ok" THEN l
                ELSE IF (expr.op.type = "OR") = isTruthy(l.v) THEN l
                ELSE evaluate(l.i, expr.right))
      [] expr.type = "Comma" ->
            Let(evaluateList(i, expr.list, 1), LAMBDA r :
            IF r.k # "ok" THEN r ELSE Ok(r.i, r.v[Len(r.v)]))
      [] expr.type = "Call" -> visitCallExpr(i, expr)
      [] expr.type = "FunctionExpr" ->
            LET i1 == alloc(i, FuncImpl(expr, i.env, FALSE))
            IN  Ok(i1, lastRef(i1))
      [] expr.type = "Get" -> visitGetExpr(i, expr)
      [] expr.type = "Set" -> visitSetExpr(i, expr)
      [] expr.type = "Delete" -> visitDeleteExpr(i, expr)
      [] expr.type = "Super" -> visitSuperExpr(i, expr)

\* the Comma branch of visitPrintStmt: each part is stringified as soon as
\* it is evaluated
printParts(i, list, k, parts) ==
    IF k > Len(list) THEN Ok([i EXCEPT !.out = Append(@, join(parts, " "))], Nil)
    ELSE Let(evaluate(i, list[k]), LAMBDA r :
         IF r.k # "ok" THEN r
             ELSE printParts(r.i, list, k + 1, Append(parts, stringify(r.i, r.v))))

visitPrintStmt(i, stmt) ==
    IF stmt.expr.type = "Comma" THEN printParts(i, stmt.expr.list, 1, <<>>)
    ELSE Let(evaluate(i, stmt.expr), LAMBDA r :
         IF r.k # "ok" THEN r
             ELSE Ok([r.i EXCEPT !.out = Append(@, stringify(r.i, r.v))], Nil))

\* the `loop:` of visitLoopStmt.  `this.env = prevEnv` is the statement after
\* the loop, so it runs when the condition turns false and on `break loop`,
\* and not when anything is thrown out of the method.  `scope` is the
\* environment visitLoopStmt made for the loop; the history gets each
\* evaluation of the condition and of the update as it starts, and how each
\* execution of the body ended.
loop(i, stmt, prevEnv, scope) ==
    Let(evaluate(noteLoop(i, stmt, scope, "condition", "ok"), stmt.condition), LAMBDA c :
    IF c.k # "ok" THEN c
        ELSE IF ~isTruthy(c.v) THEN Ok([c.i EXCEPT !.env = prevEnv], Nil)
        ELSE
    Let(execute(c.i, stmt.body), LAMBDA b :
    Let(IF b.k = "ok" /\ stmt.update.type # "null"
        THEN evaluate(noteLoop(noteLoop(b.i, stmt, scope, "body", b.k),
                               stmt, scope, "update", "ok"), stmt.update)
        ELSE [b EXCEPT !.i = noteLoop(@, stmt, scope, "body", b.k)], LAMBDA t :
    Let([t.i EXCEPT !.signals =
                       Append(@, [signal |-> t.k, stmt |-> t.v, loop |-> stmt.id])], LAMBDA caught :
    IF t.k = "ok" THEN loop(t.i, stmt, prevEnv, scope)
        ELSE IF t.k = "Break" THEN Ok([caught EXCEPT !.env = prevEnv], Nil)
        ELSE IF t.k = "Continue"
        THEN Let(IF stmt.update.type # "null"
                 THEN evaluate(noteLoop(caught, stmt, scope, "update", "ok"), stmt.update)
                 ELSE Ok(caught, Nil), LAMBDA u :
             IF u.k # "ok" THEN u ELSE loop(u.i, stmt, prevEnv, scope))
        ELSE t))))

visitLoopStmt(i, stmt) ==
    LET i1 == newEnvironment(i, i.env)
        i2 == [i1 EXCEPT !.env = Len(i1.envs)]
    IN  Let(IF stmt.init.type # "null" THEN execute(i2, stmt.init) ELSE Ok(i2, Nil), LAMBDA init :
    IF init.k # "ok" THEN init ELSE loop(init.i, stmt, i.env, Len(i1.envs)))


\* the loop of visitClassStmt over stmt.methods: Map.set, a later method of
\* the same name replaces the earlier
RECURSIVE methodMap(_, _, _, _)
methodMap(methods, env, k, map) ==
    IF k > Len(methods) THEN map
    ELSE methodMap(methods, env, k + 1,
                   mapSet(map, methods[k].name.lexeme,
                          FuncImpl(methods[k], env, methods[k].name.lexeme = "init")))

\* the loop of visitClassStmt over stmt.staticMethods: impl.set(name, new FuncImpl)
RECURSIVE setStaticMethods(_, _, _, _, _)
setStaticMethods(i, impl, staticMethods, env, k) ==
    IF k > Len(staticMethods) THEN i
    ELSE LET i1 == alloc(i, FuncImpl(staticMethods[k], env, FALSE))
         IN  setStaticMethods(setField(i1, impl, staticMethods[k].name.lexeme,
                                       lastRef(i1)).i,
                              impl, staticMethods, env, k + 1)

\* Interpreter.visitClassStmt.  The history gets the class made, its
\* superclass and the init the declaration holds, and the end of the
\* declaration.
visitClassStmt(i, stmt) ==
    LET hasSuper == stmt.superclass.type # "null"
    IN  Let(IF hasSuper THEN evaluate(i, stmt.superclass) ELSE Ok(i, Nil), LAMBDA sc :
    IF sc.k # "ok" THEN sc
        ELSE IF hasSuper /\ typeOf(sc.i, sc.v) # "class"
        THEN LoxError(sc.i, stmt.superclass.name.line, "Superclass must be a class")
        ELSE
    LET superclass == IF hasSuper THEN sc.v.ref ELSE 0
        i1 == envDefine(sc.i, sc.i.env, stmt.name.lexeme, Nil)
        i2 == IF hasSuper
              THEN LET n == newEnvironment(i1, i1.env)
                   IN  envDefine([n EXCEPT !.env = Len(n.envs)], Len(n.envs),
                                 "super", sc.v)
              ELSE i1
        methods == methodMap(stmt.methods, i2.env, 1, EmptyMap)
        i3 == note(newClassImpl(i2, stmt.name.lexeme, superclass, methods),
                   [op |-> "class", class |-> Len(i2.heap) + 1, superclass |-> superclass,
                    init |-> IF "init" \in DOMAIN methods THEN methods["init"] ELSE NoFunc])
        impl == lastRef(i3)
        i4 == setStaticMethods(i3, impl.ref, stmt.staticMethods, i2.env, 1)
        i5 == IF hasSuper THEN [i4 EXCEPT !.env = i4.envs[i4.env].enclosing] ELSE i4
        a == envAssign(i5, i5.env, stmt.name, impl)
    IN  noteEnd(IF a.k # "ok" THEN a ELSE Ok(a.i, Nil),
                IF hasSuper THEN "subclass" ELSE "baseclass", i.env))

\* Interpreter.execute: stmt.accept(this), with the short visit methods inline
execute(i, stmt) ==
    CASE stmt.type = "Expression" ->
            Let(evaluate(i, stmt.expr), LAMBDA r :
            IF r.k # "ok" THEN r ELSE Ok(r.i, Nil))
      [] stmt.type = "Print" -> visitPrintStmt(i, stmt)
      [] stmt.type = "Var" ->
            Let(IF stmt.init.type # "null" THEN evaluate(i, stmt.init)
                     ELSE Ok(i, Undefined), LAMBDA r :
            IF r.k # "ok" THEN r
                ELSE Ok(defineVar(r.i, stmt.name.lexeme, r.v), Nil))
      [] stmt.type = "Block" ->
            LET i1 == newEnvironment(i, i.env)
            IN  executeBlock(i1, stmt.stmtList, Len(i1.envs))
      [] stmt.type = "If" ->
            Let(evaluate(i, stmt.condition), LAMBDA c :
            IF c.k # "ok" THEN c
                ELSE IF isTruthy(c.v) THEN execute(c.i, stmt.thenBranch)
                ELSE IF stmt.elseBranch.type # "null" THEN execute(c.i, stmt.elseBranch)
                ELSE Ok(c.i, Nil))
      [] stmt.type = "Loop" -> visitLoopStmt(i, stmt)
      [] stmt.type = "Break" -> Throw(i, "Break", stmt.id)
      [] stmt.type = "Continue" -> Throw(i, "Continue", stmt.id)
      [] stmt.type = "FunctionStmt" ->
            LET i1 == alloc(i, FuncImpl(stmt, i.env, FALSE))
            IN  Ok(envDefine(i1, i1.env, stmt.name.lexeme, lastRef(i1)), Nil)
      [] stmt.type = "Return" ->
            Let(IF stmt.value.type # "null" THEN evaluate(i, stmt.value)
                     ELSE Ok(i, Nil), LAMBDA r :
            IF r.k # "ok" THEN r ELSE Throw(r.i, "Return", r.v))
      [] stmt.type = "Class" -> visitClassStmt(i, stmt)

\* new Interpreter(ctx): globals is frame 1.  `globals.define("type",
\* makefn("type", ...))` takes the (name, value) overload of define, so each of
\* the three names holds the Binding that makefn returned
InterpreterInit ==
    [envs |-> <<[values |-> [k \in {"type", "time", "str"} |->
                                CASE k = "type" -> Ref(1)
                                  [] k = "time" -> Ref(2)
                                  [] k = "str" -> Ref(3)],
                 enclosing |-> 0]>>,
     env |-> GlobalsId,
     heap |-> <<Binding("type", NativeFuncImpl("type", 1, FALSE, builtin("type"))),
                Binding("time", NativeFuncImpl("time", 0, FALSE, builtin("time"))),
                Binding("str", NativeFuncImpl("str", 1, FALSE, builtin("str")))>>,
     locals |-> EmptyMap,
     out |-> <<>>,
     thisReads |-> <<>>,
     signals |-> <<>>,
     history |-> <<>>]

\* Interpreter.interpret: a LoxError goes to ctx.error, anything else that is
\* thrown leaves the method.  The result is [i, ctx, k, v].  The history gets
\* the LoxError caught, the context's errors before and after, and the
\* globals then.
interpret(i, ctx, stmtList) ==
    Let(executeList(i, stmtList, 1, TRUE), LAMBDA r :
    IF r.k = "LoxError"
        THEN LET ctx1 == ctxError(ctx, "LoxError", r.v.line, r.v.msg)
             IN  [i |-> note(r.i, [op |-> "raised", error |-> r.v, before |-> ctx.errors,
                                   after |-> ctx1.errors, hadError |-> ctx1.hadError,
                                   globals |-> r.i.envs[GlobalsId].values]),
                  ctx |-> ctx1, k |-> "ok", v |-> Nil]
        ELSE [i |-> r.i, ctx |-> ctx, k |-> r.k, v |-> r.v])


(***************************************************************************)
(* util.ts: Lox.  L is the Lox object [repl, context, lexer, parser,       *)
(* resolver, interpreter] with the console (the lines console.log got in   *)
(* this run() call), the number of the call, the statement list held in a  *)
(* local of run(), and history of the call: lexical (see Resolver.run),    *)
(* stages (each stage that ran, with hadError as it started and as it      *)
(* ended), retried, firstErrors (the errors of the first parse when the    *)
(* REPL retried), pending (the errors held when the last reset began) and   *)
(* exit: "returned", "threw" (with what in thrown) or "panic".             *)
(***************************************************************************)
Whitespace == {" ", "\t", "\n", "\r"}

\* String.prototype.trim
RECURSIVE trimStart(_), trimEnd(_)
trimStart(input) ==
    IF input # <<>> /\ Head(input) \in Whitespace THEN trimStart(Tail(input)) ELSE input

trimEnd(input) ==
    IF input # <<>> /\ input[Len(input)] \in Whitespace
    THEN trimEnd(SubSeq(input, 1, Len(input) - 1))
    ELSE input

trim(input) == trimEnd(trimStart(input))

\* input.substr(-1)
lastChar(input) == IF input = <<>> THEN "" ELSE input[Len(input)]

\* `print ${input};`
wrapPrint(input) == <<"p", "r", "i", "n", "t", " ">> \o input \o <<";">>

\* history of the context: what it holds at a point of run()
notePoint(L, at) == [L EXCEPT !.points = Append(@, [at |-> at, context |-> L.context])]

\* Context.reportAndReset: console.log of each error, then the reset
reportAndReset(L) ==
    [L EXCEPT !.console = @ \o L.context.errors, !.context = ctxReset(L.context)]

\* Lox.reset(report).  The history gets the context after its reset.
reset(L, report) ==
    LET L1 == IF report THEN notePoint(reportAndReset(L), "reportAndReset")
              ELSE notePoint([L EXCEPT !.context = ctxReset(@)], "reset")
    IN  [L1 EXCEPT !.lexer = LexerInit, !.parser = ParserInit, !.resolver = ResolverInit]

\* Lox.hadError, and a variant that never sees the flag
hadErrorBlind(L) == FALSE
hadError(L) == L.context.hadError

\* `return this.reset()` and the `this.reset()` that ends run()
returnReset(L) ==
    [reset([L EXCEPT !.pending = L.context.errors], TRUE) EXCEPT !.exit = "returned"]

stage(L, name, before) ==
    notePoint([L EXCEPT !.stages = Append(@, [stage |-> name,
                                              before |-> before.context.hadError,
                                              after |-> L.context.hadError])], name)

\* this.lexer.tokenize(input).  The stage's entry also says whether the
\* lexer was in its initial state, and holds the source, the tokens returned
\* and the context's errors then.
lexStage(L, input) ==
    LET r == tokenize(L.lexer, L.context, input)
    IN  notePoint(
        [L EXCEPT !.lexer = r.lexer, !.context = r.ctx,
                  !.stages = Append(@, [stage |-> "lex", before |-> L.context.hadError,
                                        after |-> r.ctx.hadError,
                                        fresh |-> L.lexer = LexerInit /\ L.context = ContextInit,
                                        source |-> input, tokens |-> r.lexer.tokens,
                                        errors |-> r.ctx.errors])], "lex")

\* this.parser.parse(tokens)
parseStage(L) ==
    Let(parse(L.parser, L.context, L.lexer.tokens, L.run), LAMBDA r :
    stage([L EXCEPT !.parser = r.parser, !.context = r.ctx, !.stmtList = r.stmts],
              "parse", L))

\* this.resolver.run(stmtList)
resolveStage(L) ==
    Let(resolverRun(L.resolver, L.context, L.interpreter.locals, L.lexical,
                         L.stmtList), LAMBDA r :
    stage([L EXCEPT !.resolver = r.resolver, !.context = r.ctx,
                        !.interpreter.locals = r.locals, !.lexical = r.lexical],
              "resolve", L))

\* this.interpreter.interpret(stmtList): what it throws leaves run() at once;
\* a panic ends the process
interpretStage(L) ==
    Let(interpret(L.interpreter, L.context, L.stmtList), LAMBDA r :
    LET L1 == stage([L EXCEPT !.interpreter = [r.i EXCEPT !.out = <<>>],
                              !.context = r.ctx, !.console = @ \o r.i.out,
                              !.printed = Len(r.i.out)],
                    "interpret", L)
    IN  IF r.k = "ok" THEN L1
        ELSE IF r.k = "panic" THEN [L1 EXCEPT !.exit = "panic"]
        ELSE [L1 EXCEPT !.exit = "threw", !.thrown = r.k])

\* the four statements that end both branches of run(): resolve, interpret, reset
resolveAndInterpret(L) ==
    Let(resolveStage(L), LAMBDA r :
    IF hadError(r) THEN returnReset(r)
        ELSE Let(interpretStage(r), LAMBDA e :
             IF e.exit # "none" THEN e ELSE returnReset(e)))

\* `this.context.errors = previousErrors`, and a variant that keeps the
\* retry's errors
restoreErrorsSkipped(L, previousErrors) == L
restoreErrors(L, previousErrors) ==
    notePoint([L EXCEPT !.context.errors = previousErrors], "restore")

\* Lox.run.  branch is "file" (this.repl false), "repl" (this.repl true) or
\* "retry": the REPL's second pass over `print <input>;`, which is the same
\* lex and parse statements followed by the same resolve, interpret, reset,
\* and which puts the first attempt's errors back before it reports
RECURSIVE run(_, _, _), retry(_, _)
run(L, text, branch) ==
    LET input == IF branch = "repl" THEN trim(text) ELSE text
        report(S) ==
            returnReset(IF branch = "retry" THEN restoreErrors(S, S.firstErrors) ELSE S)
    IN  IF branch = "repl" /\ input = <<"e", "x", "i", "t">>
        THEN [L EXCEPT !.exit = "returned", !.result = "false"]
        ELSE
    LET t == lexStage(L, input)
    IN  IF hadError(t) THEN report(t)
        ELSE Let(parseStage(t), LAMBDA q :
             IF hadError(q)
             THEN IF branch = "repl" /\ lastChar(input) \notin {";", "}"}
                  THEN retry(q, input)
                  ELSE report(q)
             ELSE resolveAndInterpret(q))

\* `const previousErrors = this.context.errors; this.reset(false);` and the
\* second attempt
retry(L, input) ==
    run(reset([L EXCEPT !.retried = TRUE, !.firstErrors = L.context.errors], FALSE),
        wrapPrint(input), "retry")

\* Environment.define(binding): `this.values.set(arg0.name, arg0.value)`; the
\* binding's value is an object of the heap
envDefineBinding(i, env, binding) == envDefine(i, env, binding.name, binding.value)

\* makefn(name, arity, call): v is the binding
makefn(i, name, arity, fn) ==
    LET i1 == alloc(i, NativeFuncImpl(name, arity, FALSE, fn))
    IN  Ok(i1, Binding(name, lastRef(i1)))

\* a registration that hands the host callable's result on as it is
funcRaw(i, name, fn) ==
    LET binding == makefn(i, name, fn.length,
                          [host |-> TRUE, name |-> fn.name, length |-> fn.length,
                           result |-> fn.result, nullish |-> FALSE])
    IN  envDefineBinding(binding.i, GlobalsId, binding.v)

\* Lox.func: `this.globals().define(makefn(name, fn.length, (_, args) => fn(...args) ?? null))`
func(i, name, fn) ==
    LET binding == makefn(i, name, fn.length,
                          [host |-> TRUE, name |-> fn.name, length |-> fn.length,
                           result |-> fn.result, nullish |-> TRUE])
    IN  envDefineBinding(binding.i, GlobalsId, binding.v)

\* the NativeFuncImpl that makeclass makes of a method
nativeMethod(name, method, isGetter) ==
    NativeFuncImpl(name, method.call.length, isGetter,
                   [host |-> TRUE, name |-> method.call.name, length |-> method.call.length,
                    result |-> method.call.result, nullish |-> FALSE])

\* the second loop of makeclass: `impl.fields.set(name, new NativeFuncImpl(..))`
RECURSIVE nativeStatics(_, _, _, _)
nativeStatics(i, impl, staticMethods, names) ==
    IF names = {} THEN i
    ELSE LET name == CHOOSE n \in names : TRUE
             i1 == alloc(i, nativeMethod(name, staticMethods[name], FALSE))
         IN  nativeStatics([i1 EXCEPT !.heap[impl].fields = mapSet(@, name, lastRef(i1))],
                           impl, staticMethods, names \ {name})

\* makeclass(name, methods, staticMethods): a NativeFuncImpl of arity
\* call.length for each method (a getter that takes arguments is refused
\* with an Error), the NativeClassImpl, whose constructor takes `init` out
\* of the methods, and its static members; v is the binding
makeclass(i, name, methods, staticMethods) ==
    LET nativeMethods == [n \in DOMAIN methods |->
                             nativeMethod(n, methods[n], methods[n].isGetter)]
        hasInit == "init" \in DOMAIN methods
        i1 == alloc(i, [kind |-> "class", native |-> TRUE, name |-> name, superclass |-> 0,
                        methods |-> [n \in DOMAIN methods \ {"init"} |-> nativeMethods[n]],
                        fields |-> EmptyMap,
                        arity |-> IF hasInit THEN nativeMethods["init"].arity ELSE 0,
                        initializer |-> IF hasInit THEN nativeMethods["init"] ELSE NoFunc])
        impl == Len(i1.heap)
    IN  IF \E n \in DOMAIN methods : methods[n].isGetter /\ methods[n].call.length # 0
        THEN Throw(i, "host", [line |-> 0, msg |-> "Error"])
        ELSE Ok(nativeStatics(i1, impl, staticMethods, DOMAIN staticMethods),
                Binding(name, Ref(impl)))


(***************************************************************************)
(* The inputs of run()                                                     *)
(***************************************************************************)
\* a local read by a function called in its own initializer:  {var a=(fun(){return a;})();}
Panic ==
    <<"{", "v", "a", "r", " ", "a", "=", "(", "f", "u", "n", "(", ")", "{",
      "r", "e", "t", "u", "r", "n", " ", "a", ";", "}", ")", "(", ")", ";",
      "}">>

\* a local that shadows a local:  {var a=1;{var a=2;print a;}}
Shadow ==
    <<"{", "v", "a", "r", " ", "a", "=", "1", ";", "{", "v", "a", "r", " ",
      "a", "=", "2", ";", "p", "r", "i", "n", "t", " ", "a", ";", "}", "}">>

\* a class declared inside a method:  class A{m(){class B{n(){this;}}B().n();}}A().m();
NestedThis ==
    <<"c", "l", "a", "s", "s", " ", "A", "{", "m", "(", ")", "{", "c", "l",
      "a", "s", "s", " ", "B", "{", "n", "(", ")", "{", "t", "h", "i", "s",
      ";", "}", "}", "B", "(", ")", ".", "n", "(", ")", ";", "}", "}", "A",
      "(", ")", ".", "m", "(", ")", ";">>

\* a function holding a break, called outside the loop:  var g;while(true){g=fun(){break;};break;}g();
BreakInFunction ==
    <<"v", "a", "r", " ", "g", ";", "w", "h", "i", "l", "e", "(", "t", "r",
      "u", "e", ")", "{", "g", "=", "f", "u", "n", "(", ")", "{", "b", "r",
      "e", "a", "k", ";", "}", ";", "b", "r", "e", "a", "k", ";", "}", "g",
      "(", ")", ";">>

\* a function holding a break, called inside another loop:  var n=0;while(n<1){fun f(){break;}while(true){f();}n=n+1;}
BreakInCallee ==
    <<"v", "a", "r", " ", "n", "=", "0", ";", "w", "h", "i", "l", "e", "(",
      "n", "<", "1", ")", "{", "f", "u", "n", " ", "f", "(", ")", "{", "b",
      "r", "e", "a", "k", ";", "}", "w", "h", "i", "l", "e", "(", "t", "r",
      "u", "e", ")", "{", "f", "(", ")", ";", "}", "n", "=", "n", "+", "1",
      ";", "}">>

\* a runtime error inside a top-level loop (no input defines q):  while(true){q;}
LoopError ==
    <<"w", "h", "i", "l", "e", "(", "t", "r", "u", "e", ")", "{", "q", ";",
      "}">>

\* a top-level var and a top-level read of it:  var x=1;print x;
DefineAndRead ==
    <<"v", "a", "r", " ", "x", "=", "1", ";", "p", "r", "i", "n", "t", " ",
      "x", ";">>

\* an expression: the REPL prints it:  1+1
Sum ==
    <<"1", "+", "1">>

\* neither a statement nor an expression:  var
LoneVar ==
    <<"v", "a", "r">>

\* a statement that does not parse:  1+;
BadStatement ==
    <<"1", "+", ";">>

\* a character the lexer rejects:  @
BadCharacter ==
    <<"@">>

\* the word that ends the REPL:   exit
Exit ==
    <<" ", "e", "x", "i", "t">>

\* a global defined by a chunk that then throws (the break of BreakInFunction):
\* var x=1;var g;while(true){g=fun(){break;};break;}g();
DefineAndThrow ==
    <<"v", "a", "r", " ", "x", "=", "1", ";", "v", "a", "r", " ", "g", ";",
      "w", "h", "i", "l", "e", "(", "t", "r", "u", "e", ")", "{", "g", "=",
      "f", "u", "n", "(", ")", "{", "b", "r", "e", "a", "k", ";", "}", ";",
      "b", "r", "e", "a", "k", ";", "}", "g", "(", ")", ";">>

\* a read of the global x:
\* print x;
ReadX ==
    <<"p", "r", "i", "n", "t", " ", "x", ";">>

\* a method reached through two super calls reads a field of its receiver:
\* class A{m(){print this.n;}}class B<A{m(){super.m();}}class C<B{m(){super.m();}}var o=C();o.n=7;o.m();
SuperChain ==
    <<"c", "l", "a", "s", "s", " ", "A", "{", "m", "(", ")", "{", "p", "r",
      "i", "n", "t", " ", "t", "h", "i", "s", ".", "n", ";", "}", "}", "c",
      "l", "a", "s", "s", " ", "B", "<", "A", "{", "m", "(", ")", "{", "s",
      "u", "p", "e", "r", ".", "m", "(", ")", ";", "}", "}", "c", "l", "a",
      "s", "s", " ", "C", "<", "B", "{", "m", "(", ")", "{", "s", "u", "p",
      "e", "r", ".", "m", "(", ")", ";", "}", "}", "v", "a", "r", " ", "o",
      "=", "C", "(", ")", ";", "o", ".", "n", "=", "7", ";", "o", ".", "m",
      "(", ")", ";">>

\* static members read through a subclass and through super, one of them missing:
\* class Z{static t(){print 1;}}class A<Z{}class B<A{static u(){super.t();super.m;}}B.t();B.u();
StaticInherited ==
    <<"c", "l", "a", "s", "s", " ", "Z", "{", "s", "t", "a", "t", "i", "c",
      " ", "t", "(", ")", "{", "p", "r", "i", "n", "t", " ", "1", ";", "}",
      "}", "c", "l", "a", "s", "s", " ", "A", "<", "Z", "{", "}", "c", "l",
      "a", "s", "s", " ", "B", "<", "A", "{", "s", "t", "a", "t", "i", "c",
      " ", "u", "(", ")", "{", "s", "u", "p", "e", "r", ".", "t", "(", ")",
      ";", "s", "u", "p", "e", "r", ".", "m", ";", "}", "}", "B", ".", "t",
      "(", ")", ";", "B", ".", "u", "(", ")", ";">>\* a static member no class of the chain has:
\* class A{}class B<A{}B.m;
StaticMissing ==
    <<"c", "l", "a", "s", "s", " ", "A", "{", "}", "c", "l", "a", "s", "s",
      " ", "B", "<", "A", "{", "}", "B", ".", "m", ";">>
\* a registered function called with its two arguments, then with one:
\* print test(1,2);test(1);
HostCall ==
    <<"p", "r", "i", "n", "t", " ", "t", "e", "s", "t", "(", "1", ",", "2",
      ")", ";", "t", "e", "s", "t", "(", "1", ")", ";">>
\* a method of a registered class called on an instance:
\* var n=N();n.m();
NativeMethod ==
    <<"v", "a", "r", " ", "n", "=", "N", "(", ")", ";", "n", ".", "m", "(",
      ")", ";">>
\* an initializer that runs to its end in one call and returns early in another:
\* class P{init(a){this.x=a;if(a>1)return;this.y=2;}}print P(1).y;print P(5).x;
InitReturn ==
    <<"c", "l", "a", "s", "s", " ", "P", "{", "i", "n", "i", "t", "(", "a",
      ")", "{", "t", "h", "i", "s", ".", "x", "=", "a", ";", "i", "f", "(",
      "a", ">", "1", ")", "r", "e", "t", "u", "r", "n", ";", "t", "h", "i",
      "s", ".", "y", "=", "2", ";", "}", "}", "p", "r", "i", "n", "t", " ",
      "P", "(", "1", ")", ".", "y", ";", "p", "r", "i", "n", "t", " ", "P",
      "(", "5", ")", ".", "x", ";">>
\* a static method that uses super, in a class declared inside a method of a subclass:
\* class A{static m(){print 1;}}class C{m(){print 2;}}class D<C{t(){class B<A{static s(){super.m();}}B.s();}}D().t();
NestedStaticSuper ==
    <<"c", "l", "a", "s", "s", " ", "A", "{", "s", "t", "a", "t", "i", "c",
      " ", "m", "(", ")", "{", "p", "r", "i", "n", "t", " ", "1", ";", "}",
      "}", "c", "l", "a", "s", "s", " ", "C", "{", "m", "(", ")", "{", "p",
      "r", "i", "n", "t", " ", "2", ";", "}", "}", "c", "l", "a", "s", "s",
      " ", "D", "<", "C", "{", "t", "(", ")", "{", "c", "l", "a", "s", "s",
      " ", "B", "<", "A", "{", "s", "t", "a", "t", "i", "c", " ", "s", "(",
      ")", "{", "s", "u", "p", "e", "r", ".", "m", "(", ")", ";", "}", "}",
      "B", ".", "s", "(", ")", ";", "}", "}", "D", "(", ")", ".", "t", "(",
      ")", ";">>
\* the initializer of a class declared inside a method writes a field:
\* class A{m(){class B{init(){this.x=1;}}return B();}}print A().m().x;
InitNested ==
    <<"c", "l", "a", "s", "s", " ", "A", "{", "m", "(", ")", "{", "c", "l",
      "a", "s", "s", " ", "B", "{", "i", "n", "i", "t", "(", ")", "{", "t",
      "h", "i", "s", ".", "x", "=", "1", ";", "}", "}", "r", "e", "t", "u",
      "r", "n", " ", "B", "(", ")", ";", "}", "}", "p", "r", "i", "n", "t",
      " ", "A", "(", ")", ".", "m", "(", ")", ".", "x", ";">>
\* a loop left by continue, normally and by break, then a loop whose update
\* calls a function holding a continue:
\* var g;for(var i=0;i<3;i=i+1){g=fun(){continue;};if(i==0)continue;if(i==2)break;}for(var j=0;j<1;j=j+g()){}
UpdateThrows ==
    <<"v", "a", "r", " ", "g", ";", "f", "o", "r", "(", "v", "a", "r", " ",
      "i", "=", "0", ";", "i", "<", "3", ";", "i", "=", "i", "+", "1", ")",
      "{", "g", "=", "f", "u", "n", "(", ")", "{", "c", "o", "n", "t", "i",
      "n", "u", "e", ";", "}", ";", "i", "f", "(", "i", "=", "=", "0", ")",
      "c", "o", "n", "t", "i", "n", "u", "e", ";", "i", "f", "(", "i", "=",
      "=", "2", ")", "b", "r", "e", "a", "k", ";", "}", "f", "o", "r", "(",
      "v", "a", "r", " ", "j", "=", "0", ";", "j", "<", "1", ";", "j", "=",
      "j", "+", "g", "(", ")", ")", "{", "}">>
\* two counters made by the same function, inside a block that declares the
\* counters' name too:
\* {var c=0;fun mk(){var c=0;fun inc(){c=c+1;return c;}return inc;}var a=mk();var b=mk();print a(),a(),b();}
SharedCounter ==
    <<"{", "v", "a", "r", " ", "c", "=", "0", ";", "f", "u", "n", " ", "m",
      "k", "(", ")", "{", "v", "a", "r", " ", "c", "=", "0", ";", "f", "u",
      "n", " ", "i", "n", "c", "(", ")", "{", "c", "=", "c", "+", "1", ";",
      "r", "e", "t", "u", "r", "n", " ", "c", ";", "}", "r", "e", "t", "u",
      "r", "n", " ", "i", "n", "c", ";", "}", "v", "a", "r", " ", "a", "=",
      "m", "k", "(", ")", ";", "v", "a", "r", " ", "b", "=", "m", "k", "(",
      ")", ";", "p", "r", "i", "n", "t", " ", "a", "(", ")", ",", "a", "(",
      ")", ",", "b", "(", ")", ";", "}">>
\* a static member written over an inherited one, then written with nil:
\* class Z{static n(){}}class A<Z{}A.n=1;print A.n;A.n=nil;print A.n;
StaticWrite ==
    <<"c", "l", "a", "s", "s", " ", "Z", "{", "s", "t", "a", "t", "i", "c",
      " ", "n", "(", ")", "{", "}", "}", "c", "l", "a", "s", "s", " ", "A",
      "<", "Z", "{", "}", "A", ".", "n", "=", "1", ";", "p", "r", "i", "n",
      "t", " ", "A", ".", "n", ";", "A", ".", "n", "=", "n", "i", "l", ";",
      "p", "r", "i", "n", "t", " ", "A", ".", "n", ";">>
\* delete of a method, of a field, and of a static member that stands before
\* an inherited one; then a read of the deleted field:
\* class Z{}class A<Z{m(){}}var o=A();o.a=1;delete o.m;delete o.a;o.m();Z.n=1;A.n=2;delete A.n;A.n;o.a;
DeleteField ==
    <<"c", "l", "a", "s", "s", " ", "Z", "{", "}", "c", "l", "a", "s", "s",
      " ", "A", "<", "Z", "{", "m", "(", ")", "{", "}", "}", "v", "a", "r",
      " ", "o", "=", "A", "(", ")", ";", "o", ".", "a", "=", "1", ";", "d",
      "e", "l", "e", "t", "e", " ", "o", ".", "m", ";", "d", "e", "l", "e",
      "t", "e", " ", "o", ".", "a", ";", "o", ".", "m", "(", ")", ";", "Z",
      ".", "n", "=", "1", ";", "A", ".", "n", "=", "2", ";", "d", "e", "l",
      "e", "t", "e", " ", "A", ".", "n", ";", "A", ".", "n", ";", "o", ".",
      "a", ";">>
\* a getter read before and after a write of the field it reads, a method,
\* a field holding nil, and a getter of a class of the embedding program:
\* class A{init(){this.v=5;}m(){}big{return this.v>9;}}var a=A();print a.big;a.v=20;print a.big,a.m;a.w=nil;print a.w;var n=N();n.g;
Getters ==
    <<"c", "l", "a", "s", "s", " ", "A", "{", "i", "n", "i", "t", "(", ")",
      "{", "t", "h", "i", "s", ".", "v", "=", "5", ";", "}", "m", "(", ")",
      "{", "}", "b", "i", "g", "{", "r", "e", "t", "u", "r", "n", " ", "t",
      "h", "i", "s", ".", "v", ">", "9", ";", "}", "}", "v", "a", "r", " ",
      "a", "=", "A", "(", ")", ";", "p", "r", "i", "n", "t", " ", "a", ".",
      "b", "i", "g", ";", "a", ".", "v", "=", "2", "0", ";", "p", "r", "i",
      "n", "t", " ", "a", ".", "b", "i", "g", ",", "a", ".", "m", ";", "a",
      ".", "w", "=", "n", "i", "l", ";", "p", "r", "i", "n", "t", " ", "a",
      ".", "w", ";", "v", "a", "r", " ", "n", "=", "N", "(", ")", ";", "n",
      ".", "g", ";">>
\* a runtime error in the third of five statements:
\* var x=1;x=2;print y;print x;var z;
ErrorMidway ==
    <<"v", "a", "r", " ", "x", "=", "1", ";", "x", "=", "2", ";", "p", "r",
      "i", "n", "t", " ", "y", ";", "p", "r", "i", "n", "t", " ", "x", ";",
      "v", "a", "r", " ", "z", ";">>
\* a string in double quotes and a string in single quotes:
\* print "b";print 'a';
Quotes ==
    <<"p", "r", "i", "n", "t", " ", "\"", "b", "\"", ";", "p", "r", "i",
      "n", "t", " ", "'", "a", "'", ";">>
\* a subclass without init and a subclass whose init calls the inherited one:
\* class A{init(a){this.x=a;}}class B<A{}class C<A{init(){super.init(1);}}print C().x;print B(1).x;
InheritedInit ==
    <<"c", "l", "a", "s", "s", " ", "A", "{", "i", "n", "i", "t", "(", "a",
      ")", "{", "t", "h", "i", "s", ".", "x", "=", "a", ";", "}", "}", "c",
      "l", "a", "s", "s", " ", "B", "<", "A", "{", "}", "c", "l", "a", "s",
      "s", " ", "C", "<", "A", "{", "i", "n", "i", "t", "(", ")", "{", "s",
      "u", "p", "e", "r", ".", "i", "n", "i", "t", "(", "1", ")", ";", "}",
      "}", "p", "r", "i", "n", "t", " ", "C", "(", ")", ".", "x", ";", "p",
      "r", "i", "n", "t", " ", "B", "(", "1", ")", ".", "x", ";">>
\* blocks and calls ended by reaching the end, by return, by break and by a
\* runtime error, and a class declared with a superclass:
\* class A{}class B<A{m(){}}fun f(){return 1;}fun g(){{}}f();g();while(true){{break;}}while(true){fun k(){break;}k();}fun h(){{print y;}}h();
Frames ==
    <<"c", "l", "a", "s", "s", " ", "A", "{", "}", "c", "l", "a", "s", "s",
      " ", "B", "<", "A", "{", "m", "(", ")", "{", "}", "}", "f", "u", "n",
      " ", "f", "(", ")", "{", "r", "e", "t", "u", "r", "n", " ", "1", ";",
      "}", "f", "u", "n", " ", "g", "(", ")", "{", "{", "}", "}", "f", "(",
      ")", ";", "g", "(", ")", ";", "w", "h", "i", "l", "e", "(", "t", "r",
      "u", "e", ")", "{", "{", "b", "r", "e", "a", "k", ";", "}", "}", "w",
      "h", "i", "l", "e", "(", "t", "r", "u", "e", ")", "{", "f", "u", "n",
      " ", "k", "(", ")", "{", "b", "r", "e", "a", "k", ";", "}", "k", "(",
      ")", ";", "}", "f", "u", "n", " ", "h", "(", ")", "{", "{", "p", "r",
      "i", "n", "t", " ", "y", ";", "}", "}", "h", "(", ")", ";">>
\* a call of nil whose arguments assign:
\* var x=0;var n=nil;n(x=1,x=2);
NotCallable ==
    <<"v", "a", "r", " ", "x", "=", "0", ";", "v", "a", "r", " ", "n", "=",
      "n", "i", "l", ";", "n", "(", "x", "=", "1", ",", "x", "=", "2", ")",
      ";">>
\* a call with one argument too many, whose arguments assign:
\* var x=0;fun f(a){x=9;}f(x=1);f(x=2,x=3);
ArityMismatch ==
    <<"v", "a", "r", " ", "x", "=", "0", ";", "f", "u", "n", " ", "f", "(",
      "a", ")", "{", "x", "=", "9", ";", "}", "f", "(", "x", "=", "1", ")",
      ";", "f", "(", "x", "=", "2", ",", "x", "=", "3", ")", ";">>
\* variables declared with nil and without initializer, assigned and read,
\* and an assignment to a global never declared:
\* var y=nil;print y;var x;x=2;print x;{var z;z=3;print z;}u=1;
VarLifecycle ==
    <<"v", "a", "r", " ", "y", "=", "n", "i", "l", ";", "p", "r", "i", "n",
      "t", " ", "y", ";", "v", "a", "r", " ", "x", ";", "x", "=", "2", ";",
      "p", "r", "i", "n", "t", " ", "x", ";", "{", "v", "a", "r", " ", "z",
      ";", "z", "=", "3", ";", "p", "r", "i", "n", "t", " ", "z", ";", "}",
      "u", "=", "1", ";">>
\* a read of a variable declared without initializer in a block inside a
\* block that declares the same name, and one of such a global:
\* {var x=1;{var x;print x;}}var w;print w;
ShadowedVar ==
    <<"{", "v", "a", "r", " ", "x", "=", "1", ";", "{", "v", "a", "r", " ",
      "x", ";", "p", "r", "i", "n", "t", " ", "x", ";", "}", "}", "v", "a",
      "r", " ", "w", ";", "p", "r", "i", "n", "t", " ", "w", ";">>

\* return, this, super and break where they are invalid, after and around a
\* function, classes, a loop and a block:
\* fun f(){}return;class A{init(){fun g(){return 1;}return 2;}}print this;class B<A{}super.x;while(false){{}}break;
Nested ==
    <<"f", "u", "n", " ", "f", "(", ")", "{", "}", "r", "e", "t", "u", "r",
      "n", ";", "c", "l", "a", "s", "s", " ", "A", "{", "i", "n", "i", "t",
      "(", ")", "{", "f", "u", "n", " ", "g", "(", ")", "{", "r", "e", "t",
      "u", "r", "n", " ", "1", ";", "}", "r", "e", "t", "u", "r", "n", " ",
      "2", ";", "}", "}", "p", "r", "i", "n", "t", " ", "t", "h", "i", "s",
      ";", "c", "l", "a", "s", "s", " ", "B", "<", "A", "{", "}", "s", "u",
      "p", "e", "r", ".", "x", ";", "w", "h", "i", "l", "e", "(", "f", "a",
      "l", "s", "e", ")", "{", "{", "}", "}", "b", "r", "e", "a", "k", ";">>

Inputs ==
    {Panic, Shadow, NestedThis, BreakInFunction, BreakInCallee, LoopError,
     DefineAndRead, Sum, LoneVar, BadStatement, BadCharacter, Exit,
     DefineAndThrow, ReadX, SuperChain, StaticInherited, StaticMissing,
     HostCall, NativeMethod, InitReturn, NestedStaticSuper, InitNested,
     UpdateThrows, SharedCounter, StaticWrite, DeleteField,
     Getters, ErrorMidway, Quotes, InheritedInit, Frames,
     NotCallable, ArityMismatch, VarLifecycle, ShadowedVar, Nested}

(***************************************************************************)
(* What the embedding program registers: host callables by name, length    *)
(* and result, and the arguments of makeclass.                             *)
(***************************************************************************)
HostFunctions ==
    {[name |-> "test", length |-> 2, result |-> "undefined"]}

NativeClasses ==
    {[name |-> "N",
      methods |-> [m \in {"m", "g"} |->
                      [isGetter |-> m = "g",
                       call |-> [name |-> m, length |-> 0, result |-> "nil"]]],
      staticMethods |-> EmptyMap]}


(***************************************************************************)
(* The state: the Lox object (repl, context, lexer, parser, resolver,      *)
(* interpreter), the console, the number of run() calls so far, and the    *)
(* history: lexical (see Resolver.run) and last, the record of the last    *)
(* run() call (see Lox above).                                             *)
(***************************************************************************)
VARIABLES repl, context, lexer, parser, resolver, interpreter, console, runs,
          lexical, last, hosts

vars == <<repl, context, lexer, parser, resolver, interpreter, console, runs,
          lexical, last, hosts>>

NoRun ==
    [exit |-> "none", result |-> "undefined", thrown |-> "none", stages |-> <<>>,
     retried |-> FALSE, firstErrors |-> <<>>, pending |-> <<>>, printed |-> 0,
     lastChar |-> "", input |-> <<>>, points |-> <<>>, globals |-> EmptyMap]

\* nothing resolved yet
NoLexical ==
    [declared |-> EmptyMap, enclosingLoops |-> EmptyMap, constructs |-> <<>>,
     before |-> ResolverInit, after |-> resolverContext(ResolverInit)]

\* new Lox(repl)
Init ==
    /\ repl \in BOOLEAN
    /\ context = ContextInit
    /\ lexer = LexerInit
    /\ parser = ParserInit
    /\ resolver = ResolverInit
    /\ interpreter = InterpreterInit
    /\ console = <<>>
    /\ runs = 0
    /\ lexical = NoLexical
    /\ last = NoRun
    /\ hosts = 0

\* the Lox object as run() finds it; the trace fields start empty
Lox ==
    [repl |-> repl, context |-> context, lexer |-> lexer, parser |-> parser,
     resolver |-> resolver,
     interpreter |-> [interpreter EXCEPT !.thisReads = <<>>, !.signals = <<>>,
                                         !.history = <<>>],
     console |-> <<>>, run |-> runs + 1, stmtList |-> <<>>,
     lexical |-> lexical, exit |-> "none", result |-> "undefined",
     thrown |-> "none", stages |-> <<>>, retried |-> FALSE,
     firstErrors |-> <<>>, pending |-> <<>>, printed |-> 0, points |-> <<>>]

\* the Lox object as run() leaves it, by return or by exception
leave(R, input) ==
    /\ context' = R.context
    /\ lexer' = R.lexer
    /\ parser' = R.parser
    /\ resolver' = R.resolver
    /\ interpreter' = R.interpreter
    /\ console' = R.console
    /\ lexical' = R.lexical
    /\ last' = [exit |-> R.exit, result |-> R.result, thrown |-> R.thrown,
                stages |-> R.stages, retried |-> R.retried,
                firstErrors |-> R.firstErrors, pending |-> R.pending,
                printed |-> R.printed, lastChar |-> lastChar(trim(input)),
                input |-> input, points |-> R.points,
                globals |-> R.interpreter.envs[GlobalsId].values]

\* lox.run(input); nothing runs once the process has exited
Run(input) ==
    /\ runs < MaxRuns
    /\ last.exit # "panic"
    /\ leave(run(Lox, input, IF repl THEN "repl" ELSE "file"), input)
    /\ runs' = runs + 1
    /\ UNCHANGED <<repl, hosts>>

\* lox.func(fn.name, fn)
Func(fn) ==
    /\ hosts < MaxHost
    /\ runs <= MaxRunsBeforeHost
    /\ interpreter' = func(interpreter, fn.name, fn)
    /\ hosts' = hosts + 1
    /\ UNCHANGED <<repl, context, lexer, parser, resolver, console, runs, lexical, last>>

\* lox.globals().define(makeclass(decl.name, decl.methods, decl.staticMethods))
Define(decl) ==
    /\ hosts < MaxHost
    /\ runs <= MaxRunsBeforeHost
    /\ LET binding == makeclass(interpreter, decl.name, decl.methods, decl.staticMethods)
       IN  /\ binding.k = "ok"
           /\ interpreter' = envDefineBinding(binding.i, GlobalsId, binding.v)
    /\ hosts' = hosts + 1
    /\ UNCHANGED <<repl, context, lexer, parser, resolver, console, runs, lexical, last>>

Next ==
    \/ \E input \in Inputs : Run(input)
    \/ \E fn \in HostFunctions : Func(fn)
    \/ \E decl \in NativeClasses : Define(decl)

Spec == Init /\ [][Next]_vars

(***************************************************************************)
(* Parser.parse on its own: a new Parser is given a token list, any list   *)
(* of at most MaxTokens tokens of TokenAlphabet followed by EOF.  The      *)
(* lexer variable holds the list, `last` what the parse did.               *)
(***************************************************************************)
MaxTokens == 4

TokenAlphabet ==
    {Token("SEMICOLON", ";", Nil, 1), Token("LEFT_BRACE", "{", Nil, 1),
     Token("RIGHT_BRACE", "}", Nil, 1), Token("LEFT_PAREN", "(", Nil, 1),
     Token("NUMBER", "1", Num(1), 1), Token("IDENTIFIER", "a", Nil, 1),
     Token("PRINT", "print", Nil, 1), Token("VAR", "var", Nil, 1)}

TokenLists ==
    {tokens \o <<Token("EOF", "", Nil, 1)>> :
        tokens \in UNION {[1..n -> TokenAlphabet] : n \in 0..MaxTokens}}

ParserSpecInit ==
    /\ repl = FALSE
    /\ context = ContextInit
    /\ lexer \in {[LexerInit EXCEPT !.tokens = tokens] : tokens \in TokenLists}
    /\ parser = ParserInit
    /\ resolver = ResolverInit
    /\ interpreter = InterpreterInit
    /\ console = <<>>
    /\ runs = 0
    /\ lexical = NoLexical
    /\ last = NoRun
    /\ hosts = 0

\* the parser and the context as parse() leaves them
parsed(r, tokens) ==
    /\ parser' = r.parser
    /\ context' = r.ctx
    /\ last' = [NoRun EXCEPT !.exit = "parsed",
                             !.stages = <<[stage |-> "parse", tokens |-> tokens,
                                           syncs |-> r.syncs, steps |-> r.steps,
                                           errors |-> r.ctx.errors]>>]

\* parser.parse(tokens)
ParseTokens ==
    /\ runs = 0
    /\ parsed(parse(parser, context, lexer.tokens, 1), lexer.tokens)
    /\ runs' = 1
    /\ UNCHANGED <<repl, lexer, resolver, interpreter, console, lexical, hosts>>

ParserSpec == ParserSpecInit /\ [][ParseTokens]_vars

(***************************************************************************)
(* Properties.  Each is a predicate over the state run() leaves behind;    *)
(* `last` and the history fields say what happened during the run.         *)
(***************************************************************************)

\* C1: for a program the resolver accepted, Environment.getAt and
\* Environment.assignAt always find the name in the frame at the recorded
\* depth, so no run ends in panic (process abort).
C1_NoPanic == last.exit # "panic"

\* the run of  {var a=(fun(){return a;})();}  has reached the evaluator
C1_Reached ==
    /\ last.exit = "panic"
    /\ Len(last.stages) = 4
    /\ ~last.stages[3].after

\* C2: the depth recorded for a reference is the distance to the innermost
\* enclosing local scope that declares the name; a reference to a name that
\* no enclosing local scope declares has no depth recorded.
C2_InnermostScope ==
    \A id \in DOMAIN lexical.declared :
        IF lexical.declared[id] = -1
        THEN id \notin DOMAIN interpreter.locals
        ELSE /\ id \in DOMAIN interpreter.locals
             /\ interpreter.locals[id] = lexical.declared[id]

\* C3: `this`, evaluated in a method obtained from an instance, is that
\* instance, whatever encloses the class declaration.
C3_ThisIsReceiver ==
    \A k \in 1..Len(interpreter.thisReads) :
        interpreter.thisReads[k].got = interpreter.thisReads[k].receiver

\* C4: no Break signal, Continue signal or ReturnValue propagates out of
\* Interpreter.interpret for a program the resolver accepted.
C4_NoSignalEscapes == last.thrown \notin {"Break", "Continue", "Return"}

\* C5: a break or continue ends or continues exactly the innermost loop that
\* lexically encloses the statement, and no other loop.
C5_InnermostLoop ==
    \A k \in 1..Len(interpreter.signals) :
        LET s == interpreter.signals[k]
            enclosing == lexical.enclosingLoops[s.stmt]
        IN  /\ enclosing # <<>>
            /\ s.loop = enclosing[Len(enclosing)]

\* C6: after run() returned for a chunk that ended in an error, the
\* evaluator's current environment is the globals frame.
C6_EnvIsGlobals ==
    (last.exit = "returned" /\ last.pending # <<>>) => interpreter.env = GlobalsId

\* C7: lexer, parser, resolver and the diagnostics context are reset at the
\* end of every run(), also when run() is left through a host-level exception.
C7_ResetOnThrow ==
    last.exit = "threw" =>
        /\ lexer = LexerInit
        /\ parser = ParserInit
        /\ resolver = ResolverInit
        /\ context = ContextInit

StageOrder == <<"lex", "parse", "resolve", "interpret">>

\* the stages of the final attempt: in the REPL, those after the retry began
finalStages ==
    IF last.retried THEN SubSeq(last.stages, 3, Len(last.stages)) ELSE last.stages

\* C8: within one run() the stages run in the order lex, parse, resolve,
\* interpret, each only when no earlier stage (of the final attempt) reported
\* an error; nothing is executed from a chunk with a compile-time error.
C8_StagesShortCircuit ==
    /\ Len(finalStages) <= Len(StageOrder)
    /\ \A k \in 1..Len(finalStages) :
          /\ finalStages[k].stage = StageOrder[k]
          /\ ~finalStages[k].before
          /\ k > 1 => ~finalStages[k - 1].after
    /\ last.retried =>
          /\ Len(last.stages) >= 2
          /\ last.stages[1].stage = "lex"
          /\ ~last.stages[1].before /\ ~last.stages[1].after
          /\ last.stages[2] = [stage |-> "parse", before |-> FALSE, after |-> TRUE]
    /\ (\E k \in 1..Len(finalStages) : k <= 3 /\ finalStages[k].after) =>
          /\ last.printed = 0
          /\ \A k \in 1..Len(finalStages) : finalStages[k].stage # "interpret"

\* a run in which the parser reported an error and run() stopped there,
\* with the error on the console
C8_StoppedAfterParse ==
    /\ ~last.retried
    /\ Len(last.stages) = 2
    /\ last.stages[2].after
    /\ last.exit = "returned"
    /\ console # <<>>

\* C9: the REPL retries with `print <input>;` exactly when the first parse
\* reported an error and the trimmed input ends with neither `;` nor `}`; when
\* the retry's lex or parse reports an error too, the console gets exactly the
\* first attempt's errors and nothing is resolved or evaluated.
C9_RetryReportsOriginal ==
    /\ last.retried <=>
          /\ repl
          /\ Len(last.stages) >= 2
          /\ last.stages[2].stage = "parse"
          /\ last.stages[2].after
          /\ last.lastChar \notin {";", "}"}
    /\ (last.retried /\ \E k \in 3..Len(last.stages) : k <= 4 /\ last.stages[k].after) =>
          /\ console = last.firstErrors
          /\ last.firstErrors # <<>>
          /\ \A k \in 1..Len(last.stages) : last.stages[k].stage \in {"lex", "parse"}

\* a retry whose parse reported an error as well
C9_RetryFailed ==
    /\ last.retried
    /\ Len(last.stages) = 4
    /\ last.stages[4].after
    /\ last.exit = "returned"

\* C10: when run() returns normally the diagnostics context is clean, every
\* error pending at the end of the chunk is on the console once, and lexer,
\* parser and resolver are in their initial state.
C10_CleanOnReturn ==
    last.exit = "returned" =>
        /\ context = ContextInit
        /\ Len(console) = last.printed + Len(last.pending)
        /\ SubSeq(console, last.printed + 1, Len(console)) = last.pending
        /\ lexer = LexerInit
        /\ parser = ParserInit
        /\ resolver = ResolverInit

\* C11: in the REPL a global that an earlier run() defined is read, with its
\* value, by a later run(); `exit` evaluates nothing and returns false.
C11_GlobalsPersist ==
    repl =>
        /\ (last.input = ReadX /\ "x" \in DOMAIN interpreter.envs[GlobalsId].values) =>
              console = <<stringify(interpreter, interpreter.envs[GlobalsId].values["x"])>>
        /\ last.input = Exit =>
              /\ last.result = "false"
              /\ last.stages = <<>>
              /\ console = <<>>

\* C12: `super.m` yields the superclass's method bound to the receiver, and the
\* references of its body resolve, also when the running method was itself
\* reached through `super`: no super expression misses its superclass, and
\* the method at the end of a chain of super calls reads its receiver's field.
C12_SuperBindsReceiver ==
    /\ last.thrown # "host"
    /\ last.input = SuperChain => console = <<"7">>

\* C13: static members are inherited.  Every read of a static member, through
\* `B.m` or through `super.m` in a static context, yields the member (a
\* function) that the nearest class of the chain declares, and a member that
\* no class of the chain has raises "Undefined property"; and `super.m` in a
\* static method yields the static member of the superclass of the class
\* that declares the method, which the frame of the innermost enclosing
\* `super` scope holds.
C13_StaticsInherited ==
    \A k \in 1..Len(interpreter.history) :
        LET e == interpreter.history[k]
        IN  /\ e.op = "static" =>
                /\ e.want.t = "ref" => e.k = "ok" /\ e.v = e.want
                /\ e.want.t = "undefined" =>
                       /\ e.k = "LoxError"
                       /\ e.v.msg = "Undefined property '" \o e.name \o "'"
            /\ (e.op = "super" /\ e.id \in DOMAIN lexical.declared) =>
                LET d == lexical.declared[e.id]
                    holder == ancestor(interpreter, e.env, d)
                    inner == ancestor(interpreter, e.env, d - 1)
                IN  (/\ d >= 1 /\ holder # 0
                     /\ "super" \in DOMAIN interpreter.envs[holder].values
                     /\ "this" \notin DOMAIN interpreter.envs[inner].values) =>
                        LET want == staticMember(interpreter,
                                                 interpreter.envs[holder].values["super"].ref,
                                                 e.name)
                        IN  IF want.t = "undefined" THEN e.k = "LoxError"
                            ELSE e.k = "ok" /\ e.v = want

\* C14: a call of a native method bound to an instance runs the host callable
\* exactly once.
C14_BoundNativeOnce ==
    \A k \in 1..Len(interpreter.history) :
        LET e == interpreter.history[k]
        IN  (e.op = "native" /\ e.instance # 0) => e.invoked = 1

\* C15: a function registered with lox.func runs once in each call, with the
\* values of the call's arguments in order, and its undefined is nil in the
\* program; it never runs with another number of arguments than its length:
\* such a call raises "Expected N args but got M".
C15_HostFunctionCalled ==
    \A k \in 1..Len(interpreter.history) :
           LET e == interpreter.history[k]
           IN  /\ (e.op = "native" /\ e.instance = 0
                   /\ \E fn \in HostFunctions : fn.name = e.name) =>
                      /\ e.invoked = 1
                      /\ interpreter.history[k - 1].op = "host"
                      /\ interpreter.history[k - 1].fn = e.fn.name
                      /\ interpreter.history[k - 1].args = e.args
                      /\ e.fn.result = "undefined" => e.k = "ok" /\ e.v = Nil
               /\ (e.op = "host" /\ e.instance = 0) => Len(e.args) = e.length
               /\ (e.op = "host" /\ last.input = HostCall) => e.args = <<Num(1), Num(2)>>
               /\ (e.op = "arity" /\ e.callee.kind = "native") =>
                      /\ console # <<>>
                      /\ console[Len(console)] =
                             "[line " \o ToString(e.line) \o "] Error: Expected "
                             \o ToString(e.callee.arity) \o " args but got "
                             \o ToString(e.got)

\* `test`, registered with lox.func, was called with two arguments and printed
\* nil, and then with one
C15_CalledAndRefused ==
    /\ last.input = HostCall
    /\ \E k \in 1..Len(interpreter.history) :
           LET e == interpreter.history[k]
           IN  e.op = "native" /\ e.name = "test" /\ e.invoked = 1
               /\ e.args = <<Num(1), Num(2)>> /\ e.v = Nil
    /\ \E k \in 1..Len(interpreter.history) :
           LET e == interpreter.history[k]
           IN  e.op = "arity" /\ e.callee.kind = "native" /\ e.callee.fn.host /\ e.got = 1
    /\ console = <<"nil", "[line 1] Error: Expected 2 args but got 1">>

\* the value of the last write `this.name = ..` among the first n entries of
\* the history that a function running on `receiver` made
RECURSIVE lastWrite(_, _, _, _)
lastWrite(history, n, receiver, name) ==
    IF n = 0 THEN Undefined
    ELSE IF /\ history[n].op = "write" /\ history[n].self
            /\ history[n].receiver = receiver /\ history[n].name = name
    THEN history[n].value
    ELSE lastWrite(history, n - 1, receiver, name)

\* C16: a call of a class whose initializer ran to its end or executed
\* `return;` returns the instance just made, an instance of that class, and
\* the instance has every field that was written as `this.name = ..` while
\* `this` was the instance, with the last value written.
C16_InitReturnsInstance ==
    \A k \in 1..Len(interpreter.history) :
        LET e == interpreter.history[k]
        IN  e.op = "construct" =>
                /\ e.v = Ref(e.instance)
                /\ interpreter.heap[e.instance].kind = "instance"
                /\ interpreter.heap[e.instance].proto = e.class
                /\ \A j \in 1..(k - 1) :
                       LET w == interpreter.history[j]
                       IN  (w.op = "write" /\ w.self /\ w.receiver = Ref(e.instance)) =>
                              /\ w.name \in DOMAIN e.fields
                              /\ e.fields[w.name] =
                                     lastWrite(interpreter.history, k - 1,
                                               Ref(e.instance), w.name)

\* the entries of the history after the k-th, up to the next evaluation of
\* the condition of the loop running in `scope` (to the end if there is none)
untilCondition(history, k, scope) ==
    LET conditions == {j \in (k + 1)..Len(history) :
                          /\ history[j].op = "loop" /\ history[j].scope = scope
                          /\ history[j].at = "condition"}
    IN  IF conditions = {} THEN (k + 1)..Len(history)
        ELSE (k + 1)..(CHOOSE j \in conditions : \A n \in conditions : j <= n)

\* C17: in a loop with an update clause, after each execution of the body
\* that ended normally or by `continue` the update is evaluated exactly once
\* before the condition is evaluated again, in the loop's environment; after
\* a body ended by `break` it is not evaluated.
C17_UpdateOnce ==
    \A k \in 1..Len(interpreter.history) :
        LET e == interpreter.history[k]
            updates == {j \in untilCondition(interpreter.history, k, e.scope) :
                           /\ interpreter.history[j].op = "loop"
                           /\ interpreter.history[j].scope = e.scope
                           /\ interpreter.history[j].at = "update"}
        IN  (e.op = "loop" /\ e.at = "body" /\ e.update) =>
                /\ e.how \in {"ok", "Continue"} =>
                       /\ Cardinality(updates) = 1
                       /\ \A j \in updates : interpreter.history[j].env = e.scope
                /\ e.how = "Break" => updates = {}

\* C18: each call of a function makes a new environment whose parent is the
\* environment the function value captured, and a variable expression or an
\* assignment evaluated during the run reaches the variable its name denotes
\* where it is written (the innermost enclosing declaration, else the global):
\* so a captured local assigned by one call is the one later calls of the
\* same closure read, and closures made by separate calls of the defining
\* function, each holding its own frame, do not share it.
C18_ClosureFrames ==
    \A k \in 1..Len(interpreter.history) :
        LET e == interpreter.history[k]
        IN  /\ e.op = "call" => (e.frame = e.before + 1 /\ e.parent = e.closure)
            /\ (e.op \in {"read", "assign"} /\ e.id \in DOMAIN lexical.declared) =>
                   e.at = IF lexical.declared[e.id] = -1 THEN GlobalsId
                          ELSE ancestor(interpreter, e.env, lexical.declared[e.id])

\* the entries among the first n of the history that wrote or deleted `name`
\* on `object`
changes(history, n, object, name) ==
    {j \in 1..n : /\ history[j].op \in {"write", "delete"}
                  /\ history[j].object = object /\ history[j].name = name}

\* C19: a read `C.n` of a class made after a write `C.n = v`, with no write
\* or delete of C.n in between, yields v, whatever v is and whatever the
\* superclasses hold; and a write to a class leaves the static members of
\* its superclass as they were.
C19_StaticWriteRead ==
    \A k \in 1..Len(interpreter.history) :
        LET e == interpreter.history[k]
            earlier == IF e.op = "static" /\ e.via = "get"
                       THEN changes(interpreter.history, k - 1, e.class, e.name)
                       ELSE {}
            w == interpreter.history[SetMax(earlier)]
        IN  /\ (earlier # {} /\ w.op = "write") => (e.k = "ok" /\ e.v = w.value)
            /\ (e.op = "write" /\ e.superclass # 0) => e.after = e.before

\* an entry of the history that reads a property of an instance or a static
\* member of a class through `o.n`, and the object it reads
isRead(e) == e.op = "get" \/ (e.op = "static" /\ e.via = "get")
readObject(e) == IF e.op = "get" THEN e.object ELSE e.class

\* the read found a method of the instance's class chain, or an inherited
\* static member that is a function, under the name
behindMethod(e) ==
    IF e.op = "get" THEN e.method
    ELSE e.owner # 0 /\ typeOf(interpreter, e.want) = "func"

\* the read found a method of the instance's class chain, or any inherited
\* static member, under the name
behindAny(e) == IF e.op = "get" THEN e.method ELSE e.owner # 0

\* the read raised "Undefined property 'n'"
undefinedProperty(e) ==
    e.k = "LoxError" /\ e.v.msg = "Undefined property '" \o e.name \o "'"

\* every delete yields true and removes the name when the object's own
\* fields have it, and yields false and changes nothing otherwise
DeleteRemoves ==
    \A k \in 1..Len(interpreter.history) :
        LET e == interpreter.history[k]
        IN  e.op = "delete" =>
                IF e.name \in DOMAIN e.before
                THEN /\ e.v = Bool(TRUE)
                     /\ e.after = [n \in DOMAIN e.before \ {e.name} |-> e.before[n]]
                ELSE e.v = Bool(FALSE) /\ e.after = e.before

\* the reads of o.n whose last earlier write or delete of o.n is a delete
\* that yielded `deleted`
readsAfterDelete(deleted) ==
    {k \in 1..Len(interpreter.history) :
        LET e == interpreter.history[k]
            earlier == IF isRead(e)
                       THEN changes(interpreter.history, k - 1, readObject(e), e.name)
                       ELSE {}
        IN  /\ earlier # {}
            /\ interpreter.history[SetMax(earlier)].op = "delete"
            /\ interpreter.history[SetMax(earlier)].v = Bool(deleted)}

\* a method whose name a delete did not find among the fields is still read
MethodStays ==
    \A k \in readsAfterDelete(FALSE) :
        LET e == interpreter.history[k]
        IN  (e.op = "get" /\ e.method) => (e.k = "ok" /\ typeOf(interpreter, e.v) = "func")

boundTo(value, object, found) ==
    /\ value.t = "ref"
    /\ LET f == interpreter.heap[value.ref]
       IN  IF found.kind = "native" THEN f = [found EXCEPT !.instance = object]
           ELSE /\ f.kind = "func" /\ f.decl = found.decl
                /\ interpreter.envs[f.closure].enclosing = found.closure
                /\ interpreter.envs[f.closure].values = [n \in {"this"} |-> Ref(object)]

\* the calls between entries a and b of the history that ran the function
\* object f: calls of the host callable for a native one, frames on f's
\* closure otherwise
ranBetween(a, b, f) ==
    {j \in (a + 1)..(b - 1) :
        IF f.kind = "native" THEN interpreter.history[j].op = "host"
        ELSE interpreter.history[j].op = "call" /\ interpreter.history[j].closure = f.closure}

\* C21: a read o.n of an instance finds the field n when o has one, whatever
\* its value, else the method n of the class chain bound to o, else raises;
\* a member that is not a getter is the result; a getter runs exactly once
\* in each read, with no arguments and on o, and the read yields its result.
C21_InstanceRead ==
    \A k \in 1..Len(interpreter.history) :
        LET g == interpreter.history[k]
            e == interpreter.history[IF g.op = "got" THEN g.at ELSE k]
        IN  /\ g.op = "get" =>
                  IF g.field THEN g.k = "ok" /\ g.v = g.value
                  ELSE IF g.method THEN g.k = "ok" /\ boundTo(g.v, g.object, g.found)
                  ELSE g.k = "LoxError"
            /\ (g.op = "got" /\ ~g.getter) => (g.k = "ok" /\ g.v = e.v)
            /\ (g.op = "got" /\ g.getter) =>
                  LET f == interpreter.heap[e.v.ref]
                      ran == ranBetween(g.at, k, f)
                  IN  /\ Cardinality(ran) = 1
                      /\ f.kind = "native" =>
                             \A j \in ran : /\ interpreter.history[j].instance = e.object
                                            /\ interpreter.history[j].args = <<>>

\* the statements of the chunk that interpret started
started == {j \in 1..Len(interpreter.history) : interpreter.history[j].op = "stmt"}

\* C22: when interpret catches a runtime error, the statement that raised it
\* is the last one started, one diagnostic was appended to the context's
\* errors (they are the ones reported) and hadError set, run() returns
\* without throwing, and the globals run() leaves are the ones of that
\* moment, holding every name they held when the failing statement started.
C22_RuntimeErrorStops ==
    \A k \in 1..Len(interpreter.history) :
        LET e == interpreter.history[k]
        IN  e.op = "raised" =>
                /\ k = Len(interpreter.history)
                /\ e.hadError
                /\ Len(e.after) = Len(e.before) + 1
                /\ SubSeq(e.after, 1, Len(e.before)) = e.before
                /\ e.after[Len(e.after)] =
                       "[line " \o ToString(e.error.line) \o "] Error: " \o e.error.msg
                /\ last.pending = e.after
                /\ last.exit = "returned" /\ last.thrown = "none"
                /\ last.globals = e.globals
                /\ \A j \in started :
                       DOMAIN interpreter.history[j].globals \subseteq DOMAIN e.globals

\* a chunk stopped by a runtime error in its third statement: the first two
\* had defined and assigned a global, and two more statements followed
C22_StoppedMidway ==
    /\ last.input = ErrorMidway
    /\ Cardinality(started) = 3
    /\ \E k \in 1..Len(interpreter.history) : interpreter.history[k].op = "raised"
    /\ interpreter.envs[GlobalsId].values["x"] = Num(2)
    /\ "z" \notin DOMAIN interpreter.envs[GlobalsId].values
    /\ console = <<"[line 1] Error: Undefined variable 'y'">>

\* the two quote characters, and the positions of a text that hold one
Quote == {"'", "\""}
quotes(text) == {n \in 1..Len(text) : text[n] \in Quote}

\* the text has a `//`, after which quotes are not read
hasComment(text) == \E n \in 1..(Len(text) - 1) : text[n] = "/" /\ text[n + 1] = "/"

\* the texts of the closed literals of a source in which a literal opens at
\* a quote and ends at the next quote of either kind: what stands between
\* the 1st and 2nd quote, the 3rd and 4th, and so on
literals(text) ==
    {joinChars(text, a, b - 1) :
        <<a, b>> \in {p \in quotes(text) \X quotes(text) :
                         /\ p[1] < p[2]
                         /\ quotes(text) \cap (p[1] + 1)..(p[2] - 1) = {}
                         /\ Cardinality(quotes(text) \cap 1..(p[1] - 1)) % 2 = 0}}

\* C23: in the tokens a lexer in its initial state returns for a source
\* without comments, the STRING tokens are the literals that end at the
\* first quote of either kind after the one that opened them, in number and
\* in text, when every literal is closed; "Unterminated string" is among the
\* errors exactly when the last literal is not closed, that is, the source
\* holds an odd number of quotes; and the last token is EOF.
C23_EitherQuoteCloses ==
    \A n \in 1..Len(last.stages) :
        LET lex == last.stages[n]
            strings == {t \in 1..Len(lex.tokens) : lex.tokens[t].type = "STRING"}
            closed == Cardinality(quotes(lex.source)) % 2 = 0
        IN  (lex.stage = "lex" /\ lex.fresh /\ ~hasComment(lex.source)) =>
                /\ closed => /\ 2 * Cardinality(strings) = Cardinality(quotes(lex.source))
                             /\ \A t \in strings :
                                    lex.tokens[t].value.s \in literals(lex.source)
                /\ (\E e \in 1..Len(lex.errors) :
                        lex.errors[e] = "[line 1] Error: Unterminated string")
                   <=> ~closed
                /\ lex.tokens # <<>> /\ lex.tokens[Len(lex.tokens)].type = "EOF"

\* the declarations of class `class` in the history that hold an init
declaringInit(class) ==
    {j \in 1..Len(interpreter.history) :
        /\ interpreter.history[j].op = "class"
        /\ interpreter.history[j].class = class
        /\ interpreter.history[j].init.kind # "none"}

\* C24: a class declared without init under a superclass declared with an
\* init of n parameters has arity n and that init as its initializer; and
\* `super.init` in a method of a class whose superclass was declared with an
\* init yields that init, bound to the `this` of the method.
C24_InheritedInit ==
    \A k \in 1..Len(interpreter.history) :
        LET e == interpreter.history[k]
        IN  /\ (e.op = "class" /\ e.init.kind = "none") =>
                  \A j \in declaringInit(e.superclass) :
                      /\ interpreter.heap[e.class].arity = funcArity(interpreter.history[j].init)
                      /\ interpreter.heap[e.class].initializer = interpreter.history[j].init
            /\ (e.op = "super" /\ e.name = "init" /\ e.id \in DOMAIN lexical.declared) =>
                  LET d == lexical.declared[e.id]
                      holder == ancestor(interpreter, e.env, d)
                      inner == ancestor(interpreter, e.env, d - 1)
                  IN  (/\ d >= 1 /\ holder # 0
                       /\ "super" \in DOMAIN interpreter.envs[holder].values
                       /\ "this" \in DOMAIN interpreter.envs[inner].values) =>
                          \A j \in declaringInit(interpreter.envs[holder].values["super"].ref) :
                              /\ e.k = "ok"
                              /\ interpreter.heap[e.v.ref].decl = interpreter.history[j].init.decl
                              /\ nearestThis(interpreter, interpreter.heap[e.v.ref].closure)
                                     = interpreter.envs[inner].values["this"]

\* the ends of blocks, function calls and declarations of classes with a
\* superclass in the history
ended ==
    {k \in 1..Len(interpreter.history) :
        interpreter.history[k].op \in {"block", "called", "subclass"}}

\* C25: when a block, a function call or the declaration of a class with a
\* superclass has ended, however it ended, the current environment is the
\* one that was current just before it began.
C25_EnvRestored ==
    \A k \in ended :
        interpreter.history[k].how # "panic" =>
            interpreter.history[k].after = interpreter.history[k].before

\* a run in which blocks ended by break and by a runtime error, calls ended
\* by return, by reaching the end, by break and by a runtime error, and a
\* class with a superclass was declared
C25_EveryExit ==
    /\ \A how \in {"ok", "Break", "LoxError"} :
           \E k \in ended : /\ interpreter.history[k].op = "block"
                            /\ interpreter.history[k].how = how
                            /\ interpreter.history[k].before # GlobalsId
    /\ \A how \in {"ok", "Break", "LoxError"} :
           \E k \in ended : /\ interpreter.history[k].op = "called"
                            /\ interpreter.history[k].how = how
    /\ \E k \in ended : /\ interpreter.history[k].op = "called"
                         /\ interpreter.history[k].how = "ok"
                         /\ interpreter.history[k - 1].how = "Return"
    /\ \E k \in ended : interpreter.history[k].op = "subclass"

\* the callee and the arguments of a call expression, in the order written
operands(expr) == <<expr.callee>> \o expr.args

\* the call expressions of the history whose callee and arguments are
\* variables and assignments
checksOfAccesses ==
    {k \in 1..Len(interpreter.history) :
        /\ interpreter.history[k].op = "checks"
        /\ \A n \in 1..Len(operands(interpreter.history[k].expr)) :
               operands(interpreter.history[k].expr)[n].type \in {"Variable", "Assign"}}

\* the reads and assignments of the operands of the call expression checked
\* at k, in the order in which they happened
accessesFor(k) ==
    LET e == interpreter.history[k]
        ids == {operands(e.expr)[n].id : n \in 1..Len(operands(e.expr))}
        made == SelectSeq(SubSeq(interpreter.history, e.start + 1, k - 1),
                          LAMBDA h : h.op \in {"read", "assign"} /\ h.id \in ids)
    IN  [n \in 1..Len(made) |-> made[n].id]

\* what the claim has a call expression throw before the call
rejection(callee, args) ==
    IF ~(callee.t = "ref" /\ interpreter.heap[callee.ref].kind \in {"func", "native", "class"})
    THEN "Value is not callable"
    ELSE IF Len(args) # arityOf(interpreter, callee)
    THEN "Expected " \o ToString(arityOf(interpreter, callee)) \o " args but got "
         \o ToString(Len(args))
    ELSE ""

\* C26: when a call expression makes its checks, the callee and then every
\* argument have been evaluated, in the order written; a callee that is not
\* callable then raises "Value is not callable", a number of arguments other
\* than the callee's arity raises "Expected N args but got M", and after
\* either no function body or host function runs.
C26_CallChecks ==
    \A k \in 1..Len(interpreter.history) :
        LET e == interpreter.history[k]
        IN  e.op = "checks" =>
              /\ Len(e.args) = Len(e.expr.args)
              /\ k \in checksOfAccesses =>
                    accessesFor(k) = [n \in 1..Len(operands(e.expr)) |-> operands(e.expr)[n].id]
              /\ e.thrown = rejection(e.callee, e.args)
              /\ e.thrown # "" =>
                    /\ \A j \in k + 1..Len(interpreter.history) :
                           interpreter.history[j].op \notin {"call", "host", "checks", "stmt"}
                    /\ \E j \in k + 1..Len(interpreter.history) :
                           /\ interpreter.history[j].op = "raised"
                           /\ interpreter.history[j].error.msg = e.thrown

\* a call with the wrong number of arguments has been rejected after its
\* arguments assigned, and an earlier call of the same function ran
C26_Rejected ==
    \E k \in checksOfAccesses :
        /\ interpreter.history[k].thrown = "Expected 1 args but got 2"
        /\ Len(accessesFor(k)) = 3
        /\ interpreter.envs[GlobalsId].values["x"] = Num(3)
        /\ \E j \in 1..k - 1 : interpreter.history[j].op = "call"

\* the recoveries and the turns of the declaration loops of the parse done
recoveries == IF last.exit = "parsed" THEN last.stages[1].syncs ELSE <<>>
turns == IF last.exit = "parsed" THEN last.stages[1].steps ELSE <<>>

\* the parser stands at the end of the list, just after a semicolon, or just
\* before a token that begins a statement
atEndOf(tokens, current) == current + 1 >= Len(tokens)
afterSemicolon(tokens, current) == current >= 1 /\ tokens[current].type = "SEMICOLON"
beforeStatement(tokens, current) ==
    current + 1 <= Len(tokens) /\ tokens[current + 1].type \in SyncTypes

frameOf(e) ==
    IF e.id \notin DOMAIN lexical.declared THEN 0
    ELSE IF lexical.declared[e.id] = -1 THEN GlobalsId
    ELSE ancestor(interpreter, e.env, lexical.declared[e.id])

\* the `var` declarations of `name` in `frame` and the assignments to that
\* variable, before entry k of the history
writesBefore(k, frame, name) ==
    {j \in 1..k - 1 :
        LET h == interpreter.history[j]
        IN  \/ h.op = "var" /\ h.env = frame /\ h.name = name
            \/ h.op = "assign" /\ h.name = name /\ frameOf(h) = frame}

lastOf(set) == CHOOSE j \in set : \A other \in set : other <= j

\* how the access noted at k ended
outcome(k) == interpreter.history[k + 1]

\* C28: a read of a variable of this run's `var` declarations raises
\* "Uninitialized variable" while the declaration had no initializer and
\* nothing was assigned since, and otherwise yields the value declared or
\* assigned last (nil after `var x = nil;`); an assignment to a global that
\* is not defined raises "Undefined variable" and leaves the globals as they
\* were.
C28_VarLifecycle ==
    \A k \in 1..Len(interpreter.history) :
        LET e == interpreter.history[k]
        IN  /\ (/\ e.op = "read" /\ frameOf(e) # 0
                 /\ \E j \in writesBefore(k, frameOf(e), e.name) :
                        interpreter.history[j].op = "var") =>
                  LET w == interpreter.history[lastOf(writesBefore(k, frameOf(e), e.name))]
                  IN  IF w.value.t = "undefined"
                      THEN /\ outcome(k).k = "LoxError"
                           /\ outcome(k).v.msg = "Uninitialized variable '" \o e.name \o "'"
                      ELSE /\ outcome(k).k = "ok"
                           /\ outcome(k).v = w.value
            /\ (/\ e.op = "assign" /\ frameOf(e) = GlobalsId
                 /\ e.name \notin DOMAIN e.globals) =>
                  /\ outcome(k).k = "LoxError"
                  /\ outcome(k).v.msg = "Undefined variable '" \o e.name \o "'"
                  /\ outcome(k).globals = e.globals

\* C29: every function, loop, block and class resolved leaves the depth of
\* the scope stack and the currentFunction, currentLoop and currentClass
\* flags as they were before it, whether or not it reported errors; a pass
\* that begins with no scope ends with none; and the pass over
\* `fun f(){}return;class A{init(){fun g(){return 1;}return 2;}}print this;
\* class B<A{}super.x;while(false){{}}break;` reports the return at top
\* level, the return of a value in init (once), this and super outside a
\* class and the break outside a loop (in a session that no earlier run left
\* by an exception).
C29_Balanced ==
    /\ \A n \in 1..Len(lexical.constructs) :
           lexical.constructs[n].after = lexical.constructs[n].before
    /\ lexical.before.scopes = <<>> => lexical.after.depth = 0
    /\ lexical.after = resolverContext(lexical.before)
    /\ (last.input = Nested /\ last.exit = "returned" /\ last.stages[1].fresh) =>
           console = <<"[line 1]: Return statements are invalid at the top level",
                       "[line 1]: Cannot return value from an initializer",
                       "[line 1]: Cannot use 'this' outside of a class",
                       "[line 1]: Cannot use 'super' outside of a class",
                       "[line 1]: Break statements are invalid outside of loops">>

\* a pass that resolved a function, a loop, a block, a class and a class
\* with a superclass, some of them with errors reported inside, and some
\* inside a function, a loop or a class
C29_Resolved ==
    /\ \A kind \in {"function", "loop", "block", "class", "subclass"} :
           \E n \in 1..Len(lexical.constructs) : lexical.constructs[n].kind = kind
    /\ \E n \in 1..Len(lexical.constructs) : lexical.constructs[n].errors > 0
    /\ \E n \in 1..Len(lexical.constructs) :
           /\ lexical.constructs[n].before.currentFunction = "INIT"
           /\ lexical.constructs[n].before.currentClass = "CLASS"
           /\ lexical.constructs[n].before.depth > 0
    /\ \E n \in 1..Len(lexical.constructs) :
           lexical.constructs[n].before.currentLoop = "SOME"
    /\ Len(console) = 5

\* the flag of a context is set exactly when its list holds an error
flagMatchesList(ctx) == ctx.hadError <=> ctx.errors # <<>>

\* C30: after every step of run() that touches the context (each stage's
\* Context.error calls, Context.reset, Context.reportAndReset and the REPL
\* fallback's restore of the saved list), and when run() is left, hadError
\* is true exactly when the list of pending errors is not empty.
C30_FlagMatchesList ==
    /\ flagMatchesList(context)
    /\ \A n \in 1..Len(last.points) : flagMatchesList(last.points[n].context)

\* a run of the REPL whose first parse reported errors, whose reset left a
\* clean context, whose second attempt reported errors again and which put
\* the saved list back before reporting
C30_Restored ==
    \E n \in 3..Len(last.points) :
        /\ last.points[n].at = "restore"
        /\ last.points[n].context = [hadError |-> TRUE, errors |-> last.firstErrors]
        /\ last.points[n - 1].context.hadError
        /\ \E m \in 2..n - 2 :
               /\ last.points[m].at = "reset"
               /\ last.points[m].context = ContextInit
               /\ last.points[m - 1].context.hadError
        /\ last.points[n + 1].at = "reportAndReset"
        /\ last.points[n + 1].context = ContextInit

====
